---- MODULE Spec2Model ----
(***************************************************************************)
(* Sales analytics pipeline: parse_transactions -> validate_and_filter ->  *)
(* aggregation views -> catalog enrichment, as driven by main().           *)
(*                                                                         *)
(* Representation.                                                         *)
(*  - A Python str is a sequence of one-character strings.                 *)
(*  - A Python value is a record [t, s, n, k]: t is the type tag           *)
(*    ("str", "int", "float", "none"); s the characters of a str; n the    *)
(*    integer of an int, or the value of a finite float in hundredths;     *)
(*    k the class of a float ("fin", "inf", "ninf", "nan").                *)
(*  - A finite float is a fixed-point number with two decimals (all money  *)
(*    in the model has at most two decimals), so sums and products of      *)
(*    amounts are exact; inf and nan follow IEEE-754 as in CPython.        *)
(*  - A dict is a function; a missing key is a key outside its DOMAIN.     *)
(***************************************************************************)
EXTENDS Integers, Sequences, FiniteSets, TLC

\* ------------------------------------------------------------------ bounds
MaxLines == 2
\* the longest list passed to a view in a direct call
MaxRecords == 2

\* ------------------------------------------------------------ Python values
StrV(s) == [t |-> "str", s |-> s, n |-> 0, k |-> "fin"]
IntV(i) == [t |-> "int", s |-> <<>>, n |-> i, k |-> "fin"]
FloatV(k, c) == [t |-> "float", s |-> <<>>, n |-> c, k |-> k]
NoneV == [t |-> "none", s |-> <<>>, n |-> 0, k |-> "fin"]

Fin(c) == FloatV("fin", c)
NaN == FloatV("nan", 0)
PosInf == FloatV("inf", 0)
NegInf == FloatV("ninf", 0)

\* number of fixed-point units per currency unit: round(x, 2)
Scale == 100

\* ------------------------------------------------------------- characters
\* the characters of the model, in ASCII order
Alphabet ==
  << " ", "+", ",", "-", ".",
     "0", "1", "2", "3", "4", "5", "6", "7", "8", "9",
     "A", "B", "C", "D", "E", "F", "G", "H", "I", "J", "K", "L", "M",
     "N", "O", "P", "Q", "R", "S", "T", "U", "V", "W", "X", "Y", "Z",
     "a", "b", "c", "d", "e", "f", "g", "h", "i", "j", "k", "l", "m",
     "n", "o", "p", "q", "r", "s", "t", "u", "v", "w", "x", "y", "z",
     "|" >>

OrdTable ==
  [c \in {Alphabet[i] : i \in 1..Len(Alphabet)} |->
     CHOOSE i \in 1..Len(Alphabet) : Alphabet[i] = c]

\* ord(c), up to the gaps of the ASCII table
Ord(c) == OrdTable[c]

IsDigit(c) == c \in {"0", "1", "2", "3", "4", "5", "6", "7", "8", "9"}

IsUpper(c) ==
  c \in {"A", "B", "C", "D", "E", "F", "G", "H", "I", "J", "K", "L", "M",
         "N", "O", "P", "Q", "R", "S", "T", "U", "V", "W", "X", "Y", "Z"}

IsSpace(c) == c = " "

DigitVal(c) ==
  CHOOSE d \in 0..9 :
    <<"0", "1", "2", "3", "4", "5", "6", "7", "8", "9">>[d + 1] = c

\* the lower-case letter of an upper-case one
LowerOf ==
  [A |-> "a", B |-> "b", C |-> "c", D |-> "d", E |-> "e", F |-> "f", G |-> "g",
   H |-> "h", I |-> "i", J |-> "j", K |-> "k", L |-> "l", M |-> "m", N |-> "n",
   O |-> "o", P |-> "p", Q |-> "q", R |-> "r", S |-> "s", T |-> "t", U |-> "u",
   V |-> "v", W |-> "w", X |-> "x", Y |-> "y", Z |-> "z"]

\* str.lower() on one character
LowerChar(c) == IF IsUpper(c) THEN LowerOf[c] ELSE c

\* str.lower()
Lower(s) == [i \in 1..Len(s) |-> LowerChar(s[i])]

RECURSIVE LStrip(_)
LStrip(s) == IF s # <<>> /\ IsSpace(Head(s)) THEN LStrip(Tail(s)) ELSE s

RECURSIVE RStrip(_)
RStrip(s) ==
  IF s # <<>> /\ IsSpace(s[Len(s)]) THEN RStrip(SubSeq(s, 1, Len(s) - 1)) ELSE s

\* str.strip()
Strip(s) == RStrip(LStrip(s))

\* str.startswith(c) for a one-character prefix
StartsWith(s, c) == s # <<>> /\ Head(s) = c

RECURSIVE SplitAcc(_, _, _, _)
SplitAcc(s, sep, cur, acc) ==
  IF s = <<>> THEN Append(acc, cur)
  ELSE IF Head(s) = sep THEN SplitAcc(Tail(s), sep, <<>>, Append(acc, cur))
  ELSE SplitAcc(Tail(s), sep, Append(cur, Head(s)), acc)

\* str.split(sep) for a one-character separator
Split(s, sep) == SplitAcc(s, sep, <<>>, <<>>)

RECURSIVE Replace(_, _, _)
\* str.replace(c, r) for a one-character c and a replacement string r
Replace(s, c, r) ==
  IF s = <<>> THEN <<>>
  ELSE (IF Head(s) = c THEN r ELSE <<Head(s)>>) \o Replace(Tail(s), c, r)

\* lexicographic s < u on strings (code point order)
RECURSIVE StrLt(_, _)
StrLt(s, u) ==
  IF u = <<>> THEN FALSE
  ELSE IF s = <<>> THEN TRUE
  ELSE IF Head(s) = Head(u) THEN StrLt(Tail(s), Tail(u))
  ELSE Ord(Head(s)) < Ord(Head(u))

\* ---------------------------------------------------------- number parsing
AllDigits(s) == s # <<>> /\ \A i \in 1..Len(s) : IsDigit(s[i])

RECURSIVE DigitsVal(_, _)
DigitsVal(s, acc) ==
  IF s = <<>> THEN acc ELSE DigitsVal(Tail(s), acc * 10 + DigitVal(Head(s)))

HasSign(s) == s # <<>> /\ Head(s) \in {"+", "-"}
Unsigned(s) == IF HasSign(s) THEN Tail(s) ELSE s
SignOf(s) == IF s # <<>> /\ Head(s) = "-" THEN -1 ELSE 1

\* int() of a stripped string with its sign removed
IntOfBody(b, sign) ==
  IF AllDigits(b)
    THEN [ok |-> TRUE, err |-> "", v |-> IntV(sign * DigitsVal(b, 0))]
    ELSE [ok |-> FALSE, err |-> "ValueError", v |-> NoneV]

IntOfStripped(st) == IntOfBody(Unsigned(st), SignOf(st))

\* int(str): surrounding whitespace, an optional sign, decimal digits
\* (digit-group underscores are not modelled)
IntOfStr(s) == IntOfStripped(Strip(s))

\* the two-decimal value of the fraction digits d1 d2 ...
FracVal(f) ==
  IF f = <<>> THEN 0
  ELSE IF Len(f) = 1 THEN DigitVal(f[1]) * 10
  ELSE DigitVal(f[1]) * 10 + DigitVal(f[2])

IsDecimalParts(parts) ==
  /\ Len(parts) = 2
  /\ parts[1] # <<>> \/ parts[2] # <<>>
  /\ parts[1] = <<>> \/ AllDigits(parts[1])
  /\ parts[2] = <<>> \/ AllDigits(parts[2])

\* a decimal literal: digits, or digits "." digits with a digit on at least
\* one side (exponents are not modelled)
IsDecimal(b) == AllDigits(b) \/ IsDecimalParts(Split(b, "."))

DecimalPartsVal(parts) ==
  DigitsVal(parts[1], 0) * Scale
    + (IF Len(parts) = 2 THEN FracVal(parts[2]) ELSE 0)

DecimalVal(b) == DecimalPartsVal(Split(b, "."))

\* float() of a stripped string with its sign removed and in lower case
FloatOfBody(b, sg) ==
  IF b = <<"n", "a", "n">> THEN [ok |-> TRUE, err |-> "", v |-> NaN]
  ELSE IF b = <<"i", "n", "f">> \/ b = <<"i", "n", "f", "i", "n", "i", "t", "y">>
    THEN [ok |-> TRUE, err |-> "", v |-> IF sg = 1 THEN PosInf ELSE NegInf]
  ELSE IF IsDecimal(b) THEN [ok |-> TRUE, err |-> "", v |-> Fin(sg * DecimalVal(b))]
  ELSE [ok |-> FALSE, err |-> "ValueError", v |-> NoneV]

FloatOfStripped(st) == FloatOfBody(Lower(Unsigned(st)), SignOf(st))

\* float(str): surrounding whitespace, an optional sign, then a decimal
\* literal, or "inf" / "infinity" / "nan" in any case
FloatOfStr(s) == FloatOfStripped(Strip(s))

\* int(x) for any value x
PyInt(x) ==
  CASE x.t = "int" -> [ok |-> TRUE, err |-> "", v |-> x]
    [] x.t = "str" -> IntOfStr(x.s)
    [] x.t = "float" ->
         IF x.k = "nan" THEN [ok |-> FALSE, err |-> "ValueError", v |-> NoneV]
         ELSE IF x.k # "fin" THEN [ok |-> FALSE, err |-> "OverflowError", v |-> NoneV]
         ELSE [ok |-> TRUE, err |-> "",
               v |-> IntV(IF x.n >= 0 THEN x.n \div Scale ELSE -((-x.n) \div Scale))]
    [] OTHER -> [ok |-> FALSE, err |-> "TypeError", v |-> NoneV]

\* float(x) for any value x
PyFloat(x) ==
  CASE x.t = "float" -> [ok |-> TRUE, err |-> "", v |-> x]
    [] x.t = "int" -> [ok |-> TRUE, err |-> "", v |-> Fin(x.n * Scale)]
    [] x.t = "str" -> FloatOfStr(x.s)
    [] OTHER -> [ok |-> FALSE, err |-> "TypeError", v |-> NoneV]

\* ------------------------------------------------------- float arithmetic
\* a < b, a <= b on floats: every comparison with nan is false
FLt(a, b) ==
  /\ a.k # "nan" /\ b.k # "nan"
  /\ \/ a.k = "ninf" /\ b.k # "ninf"
     \/ a.k = "fin" /\ b.k = "inf"
     \/ a.k = "fin" /\ b.k = "fin" /\ a.n < b.n

FEq(a, b) ==
  /\ a.k # "nan" /\ b.k # "nan"
  /\ a.k = b.k
  /\ a.k = "fin" => a.n = b.n

FLe(a, b) == FLt(a, b) \/ FEq(a, b)
FGt(a, b) == FLt(b, a)
FGe(a, b) == FLe(b, a)

FZero == Fin(0)

\* a + b on floats
FAdd(a, b) ==
  IF a.k = "nan" \/ b.k = "nan" THEN NaN
  ELSE IF a.k = "fin" /\ b.k = "fin" THEN Fin(a.n + b.n)
  ELSE IF a.k = "fin" THEN b
  ELSE IF b.k = "fin" THEN a
  ELSE IF a.k = b.k THEN a
  ELSE NaN

\* q * f for an int q and a float f (the amount Quantity * UnitPrice)
FMulInt(q, f) ==
  IF f.k = "nan" THEN NaN
  ELSE IF f.k = "fin" THEN Fin(q * f.n)
  ELSE IF q = 0 THEN NaN
  ELSE IF (q > 0) = (f.k = "inf") THEN PosInf ELSE NegInf

\* ---------------------------------------------------------------- raw lines
\* the raw lines a data file can hold (the output of read_sales_data)
\* accepted and valid; Amount 90000.00
\*   T001|2024-12-01|P101|Laptop|2|45000.0|C001|North
Line_Laptop ==
  <<"T", "0", "0", "1", "|", "2", "0", "2", "4", "-", "1", "2", "-", "0",
    "1", "|", "P", "1", "0", "1", "|", "L", "a", "p", "t", "o", "p", "|",
    "2", "|", "4", "5", "0", "0", "0", ".", "0", "|", "C", "0", "0", "1",
    "|", "N", "o", "r", "t", "h">>

\* accepted and valid; Amount 2500.00
\*   T002|2024-12-01|P999|Mouse|5|500.0|C002|South
Line_Mouse ==
  <<"T", "0", "0", "2", "|", "2", "0", "2", "4", "-", "1", "2", "-", "0",
    "1", "|", "P", "9", "9", "9", "|", "M", "o", "u", "s", "e", "|", "5",
    "|", "5", "0", "0", ".", "0", "|", "C", "0", "0", "2", "|", "S", "o",
    "u", "t", "h">>

\* accepted and valid; nine fields, padded name, comma in the price; Amount 18000.00
\*   T003|2024-12-02|P12A| Mouse |12|1,500|C001|north|note
Line_Mouse12 ==
  <<"T", "0", "0", "3", "|", "2", "0", "2", "4", "-", "1", "2", "-", "0",
    "2", "|", "P", "1", "2", "A", "|", " ", "M", "o", "u", "s", "e", " ",
    "|", "1", "2", "|", "1", ",", "5", "0", "0", "|", "C", "0", "0", "1",
    "|", "n", "o", "r", "t", "h", "|", "n", "o", "t", "e">>

\* accepted and valid; comma in the name; Amount 2500.00
\*   T004|2024-12-02|P-5|Desk,Oak|2|1250.0|C002|South
Line_Desk ==
  <<"T", "0", "0", "4", "|", "2", "0", "2", "4", "-", "1", "2", "-", "0",
    "2", "|", "P", "-", "5", "|", "D", "e", "s", "k", ",", "O", "a", "k",
    "|", "2", "|", "1", "2", "5", "0", ".", "0", "|", "C", "0", "0", "2",
    "|", "S", "o", "u", "t", "h">>

\* accepted; UnitPrice is the float nan
\*   T005|2024-12-03|PX|Webcam|3|nan|C003|East
Line_NaN ==
  <<"T", "0", "0", "5", "|", "2", "0", "2", "4", "-", "1", "2", "-", "0",
    "3", "|", "P", "X", "|", "W", "e", "b", "c", "a", "m", "|", "3", "|",
    "n", "a", "n", "|", "C", "0", "0", "3", "|", "E", "a", "s", "t">>

\* accepted; UnitPrice is the float inf
\*   T006|2024-12-03|P101|Laptop|1|inf|C003|East
Line_Inf ==
  <<"T", "0", "0", "6", "|", "2", "0", "2", "4", "-", "1", "2", "-", "0",
    "3", "|", "P", "1", "0", "1", "|", "L", "a", "p", "t", "o", "p", "|",
    "1", "|", "i", "n", "f", "|", "C", "0", "0", "3", "|", "E", "a", "s",
    "t">>

\* accepted; Quantity 0
\*   T007|2024-12-02|P101|Laptop|0|45000.0|C002|North
Line_Qty0 ==
  <<"T", "0", "0", "7", "|", "2", "0", "2", "4", "-", "1", "2", "-", "0",
    "2", "|", "P", "1", "0", "1", "|", "L", "a", "p", "t", "o", "p", "|",
    "0", "|", "4", "5", "0", "0", "0", ".", "0", "|", "C", "0", "0", "2",
    "|", "N", "o", "r", "t", "h">>

\* accepted; UnitPrice -5.50
\*   T008|2024-12-04|P5|Desk|2|-5.5|C004|West
Line_NegPrice ==
  <<"T", "0", "0", "8", "|", "2", "0", "2", "4", "-", "1", "2", "-", "0",
    "4", "|", "P", "5", "|", "D", "e", "s", "k", "|", "2", "|", "-", "5",
    ".", "5", "|", "C", "0", "0", "4", "|", "W", "e", "s", "t">>

\* accepted; TransactionID without the T prefix
\*   X009|2024-12-01|P101|Laptop|1|100|C001|North
Line_BadPrefix ==
  <<"X", "0", "0", "9", "|", "2", "0", "2", "4", "-", "1", "2", "-", "0",
    "1", "|", "P", "1", "0", "1", "|", "L", "a", "p", "t", "o", "p", "|",
    "1", "|", "1", "0", "0", "|", "C", "0", "0", "1", "|", "N", "o", "r",
    "t", "h">>

\* accepted; empty Date
\*   T010||P101|Laptop|1|100|C001|North
Line_NoDate ==
  <<"T", "0", "1", "0", "|", "|", "P", "1", "0", "1", "|", "L", "a", "p",
    "t", "o", "p", "|", "1", "|", "1", "0", "0", "|", "C", "0", "0", "1",
    "|", "N", "o", "r", "t", "h">>

\* dropped; Quantity is not an integer literal
\*   T011|2024-12-01|P101|Laptop|two|100|C001|North
Line_BadQty ==
  <<"T", "0", "1", "1", "|", "2", "0", "2", "4", "-", "1", "2", "-", "0",
    "1", "|", "P", "1", "0", "1", "|", "L", "a", "p", "t", "o", "p", "|",
    "t", "w", "o", "|", "1", "0", "0", "|", "C", "0", "0", "1", "|", "N",
    "o", "r", "t", "h">>

\* dropped; seven fields
\*   T012|2024-12-01|P101|Laptop|1|100|C001
Line_Short ==
  <<"T", "0", "1", "2", "|", "2", "0", "2", "4", "-", "1", "2", "-", "0",
    "1", "|", "P", "1", "0", "1", "|", "L", "a", "p", "t", "o", "p", "|",
    "1", "|", "1", "0", "0", "|", "C", "0", "0", "1">>

LinePool ==
  {Line_Laptop, Line_Mouse, Line_Mouse12, Line_Desk,
   Line_NaN, Line_Inf, Line_Qty0, Line_NegPrice,
   Line_BadPrefix, Line_NoDate, Line_BadQty, Line_Short}

\* ------------------------------------------------------ parse_transactions
\* a parser that accepts only lines of exactly eight fields
NotEightFields(parts) == Len(parts) # 8

\* len(parts) < 8
TooFewFields(parts) == Len(parts) < 8

StripAll(raw) == [i \in 1..Len(raw) |-> Strip(raw[i])]

\* [f.strip() for f in line.split('|')]
SplitFields(line) == StripAll(Split(line, "|"))

\* (p_name or "").replace(",", " ").strip()
CleanName(p_name) == Strip(Replace(p_name, ",", <<" ">>))

\* (qty_raw or "").replace(",", "").strip()
CleanNumber(raw) == Strip(Replace(raw, ",", <<>>))

\* the record built from the fields of a line and its parsed numbers, unless
\* int() or float() raised a ValueError
ParsedRecord(parts, qty, price) ==
  IF ~qty.ok \/ ~price.ok THEN [ok |-> FALSE, txn |-> <<>>]
  ELSE [ok |-> TRUE,
        txn |-> [TransactionID |-> StrV(parts[1]),
                 Date          |-> StrV(parts[2]),
                 ProductID     |-> StrV(parts[3]),
                 ProductName   |-> StrV(CleanName(parts[4])),
                 Quantity      |-> qty.v,
                 UnitPrice     |-> price.v,
                 CustomerID    |-> StrV(parts[7]),
                 Region        |-> StrV(parts[8])]]

ParseFields(parts) ==
  IF TooFewFields(parts) THEN [ok |-> FALSE, txn |-> <<>>]
  ELSE ParsedRecord(parts, IntOfStr(CleanNumber(parts[5])),
                    FloatOfStr(CleanNumber(parts[6])))

\* one iteration of the loop of parse_transactions: the record appended for
\* the line, if any
ParseLine(line) == ParseFields(SplitFields(line))

\* parsed with the record of one more line, if it has one
AppendParsed(parsed, r) == IF r.ok THEN Append(parsed, r.txn) ELSE parsed

RECURSIVE ParseFrom(_, _)
ParseFrom(lines, parsed) ==
  IF lines = <<>> THEN parsed
  ELSE ParseFrom(Tail(lines), AppendParsed(parsed, ParseLine(Head(lines))))

parse_transactions(lines) == ParseFrom(lines, <<>>)

\* ------------------------------------ file_handler_dif.parse_transactions
\* t_id, dt, ..., region = [f.strip() for f in line.split('|')]: unpacking a
\* list that does not hold exactly eight items raises a ValueError, outside
\* any try
DifUnpackRaises(parts) == Len(parts) # 8

\* the record of a line of eight fields, if int() and float() accept its
\* numbers
DifParseFields(parts) ==
  ParsedRecord(parts, IntOfStr(CleanNumber(parts[5])),
               FloatOfStr(CleanNumber(parts[6])))

RECURSIVE DifParseFrom(_, _)
\* the loop of file_handler_dif.parse_transactions: the exception of a line
\* ends the call, and nothing is returned
DifParseFrom(lines, data) ==
  IF lines = <<>> THEN [raised |-> FALSE, data |-> data]
  ELSE IF DifUnpackRaises(SplitFields(Head(lines)))
    THEN [raised |-> TRUE, data |-> <<>>]
  ELSE DifParseFrom(Tail(lines),
                    AppendParsed(data, DifParseFields(SplitFields(Head(lines)))))

dif_parse_transactions(raw_line) == DifParseFrom(raw_line, <<>>)

\* ------------------------------------------------------ validate_and_filter
required_fields ==
  <<"TransactionID", "Date", "ProductID", "ProductName",
    "Quantity", "UnitPrice", "CustomerID", "Region">>

\* the decimal digit of d
DigitChar(d) == <<"0", "1", "2", "3", "4", "5", "6", "7", "8", "9">>[d + 1]

RECURSIVE NatDigits(_)
NatDigits(i) ==
  IF i < 10 THEN <<DigitChar(i)>>
  ELSE Append(NatDigits(i \div 10), DigitChar(i % 10))

\* the digits of a non-negative float of a hundredths
FixedDigits(a) ==
  NatDigits(a \div Scale) \o <<".">> \o NatDigits((a % Scale) \div 10)
    \o NatDigits(a % 10)

\* str(x) for any value x (a finite float prints with its two decimals)
PyStr(x) ==
  CASE x.t = "str" -> x.s
    [] x.t = "int" -> IF x.n < 0 THEN <<"-">> \o NatDigits(-x.n) ELSE NatDigits(x.n)
    [] x.t = "float" ->
         IF x.k = "nan" THEN <<"n", "a", "n">>
         ELSE IF x.k = "inf" THEN <<"i", "n", "f">>
         ELSE IF x.k = "ninf" THEN <<"-", "i", "n", "f">>
         ELSE IF x.n < 0 THEN <<"-">> \o FixedDigits(-x.n)
         ELSE FixedDigits(x.n)
    [] OTHER -> <<"N", "o", "n", "e">>

\* k not in txn or txn[k] in (None, "")
FieldMissing(txn, k) ==
  k \notin DOMAIN txn \/ txn[k] = NoneV \/ txn[k] = StrV(<<>>)

\* missing = [k for k in required_fields if ...]; if missing
AnyMissing(txn) ==
  \E i \in 1..Len(required_fields) : FieldMissing(txn, required_fields[i])

\* not str(txn[k]).startswith(prefix)
BadPrefix(txn, k, prefix) == ~StartsWith(PyStr(txn[k]), prefix)

\* a check that lets a zero quantity through
NegativeOnly(qty, price) == qty.n < 0 \/ FLe(price, FZero)

\* qty <= 0 or price <= 0
NonPositive(qty, price) == qty.n <= 0 \/ FLe(price, FZero)

\* the checks on the coerced numbers of a record
CheckNumbers(qty, price) ==
  IF qty.err = "OverflowError" THEN "raise"
  ELSE IF ~qty.ok \/ ~price.ok THEN "invalid"
  ELSE IF NonPositive(qty.v, price.v) THEN "invalid"
  ELSE "valid"

\* the body of the validation loop for one record:
\*   "invalid" : invalid_count += 1; continue
\*   "valid"   : the record is normalised and appended
\*   "raise"   : int() raised an exception the except clause does not name
ValidateOne(txn) ==
  IF AnyMissing(txn) THEN "invalid"
  ELSE IF BadPrefix(txn, "TransactionID", "T") THEN "invalid"
  ELSE IF BadPrefix(txn, "ProductID", "P") THEN "invalid"
  ELSE IF BadPrefix(txn, "CustomerID", "C") THEN "invalid"
  ELSE CheckNumbers(PyInt(txn["Quantity"]), PyFloat(txn["UnitPrice"]))

\* a normalisation that stores both numbers as floats
NormaliseAsFloats(txn) ==
  [txn EXCEPT !["Quantity"] = PyFloat(txn["Quantity"]).v,
              !["UnitPrice"] = PyFloat(txn["UnitPrice"]).v]

\* txn["Quantity"] = qty; txn["UnitPrice"] = price
Normalise(txn) ==
  [txn EXCEPT !["Quantity"] = PyInt(txn["Quantity"]).v,
              !["UnitPrice"] = PyFloat(txn["UnitPrice"]).v]

\* the list after the validation loop: records that passed are normalised in
\* place, the others are untouched
NormalisedList(transactions) ==
  [i \in 1..Len(transactions) |->
     IF ValidateOne(transactions[i]) = "valid"
       THEN Normalise(transactions[i]) ELSE transactions[i]]

RECURSIVE ValidList(_)
\* valid_transactions after the loop
ValidList(transactions) ==
  IF transactions = <<>> THEN <<>>
  ELSE (IF ValidateOne(Head(transactions)) = "valid"
          THEN <<Normalise(Head(transactions))>> ELSE <<>>)
       \o ValidList(Tail(transactions))

RECURSIVE InvalidCount(_)
\* invalid_count after the loop
InvalidCount(transactions) ==
  IF transactions = <<>> THEN 0
  ELSE (IF ValidateOne(Head(transactions)) = "invalid" THEN 1 ELSE 0)
       + InvalidCount(Tail(transactions))

ValidationRaises(transactions) ==
  \E i \in 1..Len(transactions) : ValidateOne(transactions[i]) = "raise"

\* def amount(t): return t["Quantity"] * t["UnitPrice"]
amount(t) == FMulInt(t["Quantity"].n, t["UnitPrice"])

\* str(t.get("Region", "")).strip().lower() == str(region).strip().lower()
RegionMatches(t, region) ==
  Lower(Strip(PyStr(t["Region"]))) = Lower(Strip(PyStr(region)))

\* an exclusive lower bound
AboveMin(t, min_amount) == FGt(amount(t), PyFloat(min_amount).v)

\* amount(t) >= float(min_amount)
AtLeastMin(t, min_amount) == FGe(amount(t), PyFloat(min_amount).v)

\* amount(t) <= float(max_amount)
AtMostMax(t, max_amount) == FLe(amount(t), PyFloat(max_amount).v)

RegionFilter(current, region) ==
  IF region = NoneV THEN current
  ELSE SelectSeq(current, LAMBDA t : RegionMatches(t, region))

MinFilter(current, min_amount) ==
  IF min_amount = NoneV THEN current
  ELSE SelectSeq(current, LAMBDA t : AtLeastMin(t, min_amount))

MaxFilter(current, max_amount) ==
  IF max_amount = NoneV THEN current
  ELSE SelectSeq(current, LAMBDA t : AtMostMax(t, max_amount))

\* a summary whose filtered_by_amount is overwritten by the max_amount filter
\* instead of added to
FilterResultLastStep(transactions, invalid, valid, afterR, afterN, afterX) ==
  [current |-> afterX,
   invalid_count |-> invalid,
   filter_summary |->
     [total_input        |-> Len(transactions),
      invalid            |-> invalid,
      valid_records      |-> Len(valid),
      filtered_by_region |-> Len(valid) - Len(afterR),
      filtered_by_amount |-> Len(afterN) - Len(afterX),
      final_count        |-> Len(afterX)]]

\* filter_summary and the returned tuple, from the lists left by each step
FilterResult(transactions, invalid, valid, afterR, afterN, afterX) ==
  [current |-> afterX,
   invalid_count |-> invalid,
   filter_summary |->
     [total_input        |-> Len(transactions),
      invalid            |-> invalid,
      valid_records      |-> Len(valid),
      filtered_by_region |-> Len(valid) - Len(afterR),
      filtered_by_amount |-> (Len(afterR) - Len(afterN)) + (Len(afterN) - Len(afterX)),
      final_count        |-> Len(afterX)]]

\* the max_amount filter on the list left by the min_amount filter
FilterMax(transactions, invalid, valid, afterR, afterN, max_amount) ==
  FilterResult(transactions, invalid, valid, afterR, afterN,
               MaxFilter(afterN, max_amount))

\* the min_amount filter on the list left by the region filter
FilterMin(transactions, invalid, valid, afterR, min_amount, max_amount) ==
  FilterMax(transactions, invalid, valid, afterR,
            MinFilter(afterR, min_amount), max_amount)

\* the amount filters applied to the valid records before the region filter
FilterAmountsFirst(transactions, invalid, valid, region, min_amount, max_amount) ==
  [current |-> RegionFilter(MaxFilter(MinFilter(valid, min_amount), max_amount),
                            region),
   invalid_count |-> invalid,
   filter_summary |->
     [total_input        |-> Len(transactions),
      invalid            |-> invalid,
      valid_records      |-> Len(valid),
      filtered_by_region |->
        Len(MaxFilter(MinFilter(valid, min_amount), max_amount))
          - Len(RegionFilter(MaxFilter(MinFilter(valid, min_amount), max_amount),
                             region)),
      filtered_by_amount |->
        Len(valid) - Len(MaxFilter(MinFilter(valid, min_amount), max_amount)),
      final_count        |->
        Len(RegionFilter(MaxFilter(MinFilter(valid, min_amount), max_amount),
                         region))]]

\* the region filter on the valid records
FilterRegion(transactions, invalid, valid, region, min_amount, max_amount) ==
  FilterMin(transactions, invalid, valid, RegionFilter(valid, region),
            min_amount, max_amount)

\* validate_and_filter: (current, invalid_count, filter_summary)
validate_and_filter(transactions, region, min_amount, max_amount) ==
  FilterRegion(transactions, InvalidCount(transactions),
               ValidList(transactions), region, min_amount, max_amount)

\* ------------------------------------------------------------ list.sort()
\* the order of two sort keys of the same type (key1 < key2)
KeyLt(a, b) ==
  CASE a.t = "int" -> a.n < b.n
    [] a.t = "float" -> FLt(a, b)
    [] OTHER -> StrLt(a.s, b.s)

Reverse(s) == [i \in 1..Len(s) |-> s[Len(s) + 1 - i]]

RECURSIVE RunEnd(_, _, _)
\* count_run: the length of the run that starts the list; i is the number of
\* elements already in the run
RunEnd(s, i, desc) ==
  IF i >= Len(s) THEN i
  ELSE IF KeyLt(s[i + 1].key, s[i].key) = desc THEN RunEnd(s, i + 1, desc)
  ELSE i

RECURSIVE BinarySearch(_, _, _, _)
\* the insertion point of pivot in the sorted prefix s[l+1 .. r]
BinarySearch(s, pivot, l, r) ==
  IF l >= r THEN l
  ELSE LET p == l + ((r - l) \div 2)
       IN IF KeyLt(pivot.key, s[p + 1].key) THEN BinarySearch(s, pivot, l, p)
          ELSE BinarySearch(s, pivot, p + 1, r)

\* s with its element start + 1 moved to position l + 1
InsertAt(s, start, l) ==
  SubSeq(s, 1, l) \o <<s[start + 1]>> \o SubSeq(s, l + 1, start)
    \o SubSeq(s, start + 2, Len(s))

RECURSIVE BinarySort(_, _)
\* binarysort: s[1 .. start] is sorted, insert the elements after it
BinarySort(s, start) ==
  IF start >= Len(s) THEN s
  ELSE BinarySort(InsertAt(s, start, BinarySearch(s, s[start + 1], 0, start)),
                  start + 1)

\* the list with its leading run of n elements put in ascending order
RunReversed(s, desc, n) ==
  IF desc THEN Reverse(SubSeq(s, 1, n)) \o SubSeq(s, n + 1, Len(s)) ELSE s

SortFromRun(s, desc, n) == BinarySort(RunReversed(s, desc, n), n)

SortWithRun(s, desc) == SortFromRun(s, desc, RunEnd(s, 2, desc))

\* list.sort() of CPython on a short list of [key, item] pairs: the leading
\* run is found (a strictly descending one is reversed) and the rest is
\* inserted by binary insertion; only key1 < key2 is ever evaluated
ListSort(s) ==
  IF Len(s) < 2 THEN s ELSE SortWithRun(s, KeyLt(s[2].key, s[1].key))

\* sorted(items, key=..., reverse=...): a reverse sort reverses the list,
\* sorts it and reverses the result, which keeps it stable
PySorted(s, reverse) ==
  IF reverse THEN Reverse(ListSort(Reverse(s))) ELSE ListSort(s)

\* ------------------------------------------------------- aggregation views
\* txn.get(k, default)
Get(txn, k, default) == IF k \in DOMAIN txn THEN txn[k] ELSE default

\* the contribution of a record from its coerced numbers and stripped key
ContributionOf(qty, price, key) ==
  IF ~qty.ok \/ ~price.ok
    THEN [ok |-> FALSE, key |-> <<>>, qty |-> 0, amount |-> FZero]
    ELSE [ok |-> TRUE, key |-> key, qty |-> qty.v.n,
          amount |-> FMulInt(qty.v.n, price.v)]

\* the try block of a view's loop: the stripped grouping key, the quantity
\* and the amount of one record; ok is false when the except clause
\* (ValueError, TypeError, AttributeError) skips the record
Contribution(txn, keyfield) ==
  ContributionOf(PyInt(Get(txn, "Quantity", NoneV)),
                 PyFloat(Get(txn, "UnitPrice", NoneV)),
                 Strip(PyStr(Get(txn, keyfield, StrV(<<>>)))))

IndexOfKey(groups, key) ==
  IF \E i \in 1..Len(groups) : groups[i].key = key
    THEN CHOOSE i \in 1..Len(groups) : groups[i].key = key
    ELSE 0

\* a count that is set instead of incremented
CountReset(count) == 1

\* region_stats[region]["transaction_count"] += 1
CountIncrement(count) == count + 1

\* the statistics of a group after one more record (a new group starts from
\* zero): the dict keeps its keys in insertion order
AddAt(groups, c, i) ==
  IF i = 0
    THEN Append(groups, [key |-> c.key, total_qty |-> c.qty,
                         total |-> FAdd(FZero, c.amount),
                         count |-> CountIncrement(0)])
    ELSE [groups EXCEPT ![i] = [key |-> c.key,
                                total_qty |-> @.total_qty + c.qty,
                                total |-> FAdd(@.total, c.amount),
                                count |-> CountIncrement(@.count)]]

\* records whose coercion fails or whose stripped key is empty are skipped
AddToGroups(groups, c) ==
  IF c.ok /\ c.key # <<>> THEN AddAt(groups, c, IndexOfKey(groups, c.key))
  ELSE groups

RECURSIVE GroupBy(_, _, _)
\* the accumulation loop of a view
GroupBy(transactions, keyfield, groups) ==
  IF transactions = <<>> THEN groups
  ELSE GroupBy(Tail(transactions), keyfield,
               AddToGroups(groups, Contribution(Head(transactions), keyfield)))

\* grand_total after one more record
AddToTotal(acc, c) == IF c.ok /\ c.key # <<>> THEN FAdd(acc, c.amount) ELSE acc

RECURSIVE GrandTotal(_, _, _)
\* grand_total of region_wise_sales
GrandTotal(transactions, keyfield, acc) ==
  IF transactions = <<>> THEN acc
  ELSE GrandTotal(Tail(transactions), keyfield,
                  AddToTotal(acc, Contribution(Head(transactions), keyfield)))

RECURSIVE LongDiv(_, _, _, _)
\* digits more decimal digits of the quotient q (remainder r) of a division
\* by den
LongDiv(q, r, den, digits) ==
  IF digits = 0 THEN [q |-> q, r |-> r]
  ELSE LongDiv(q * 10 + ((r * 10) \div den), (r * 10) % den, den, digits - 1)

\* the quotient d.q rounded on the remainder d.r of a division by den (ties
\* go to the even neighbour)
RoundHalfEven(d, den) ==
  IF 2 * d.r > den \/ (2 * d.r = den /\ d.q % 2 = 1) THEN d.q + 1 ELSE d.q

\* a percentage cut after two decimals instead of rounded
TruncatedRatio(num, den) == LongDiv(num \div den, num % den, den, 4).q

\* round(num / den * 100, 2) in hundredths, for num >= 0 and den > 0
RoundedRatio(num, den) ==
  RoundHalfEven(LongDiv(num \div den, num % den, den, 4), den)

\* round((total_sales / grand_total) * 100 if grand_total > 0 else 0.0, 2)
Percentage(total_sales, grand_total) ==
  IF ~FGt(grand_total, FZero) THEN FZero
  ELSE IF total_sales.k = "nan" THEN NaN
  ELSE IF grand_total.k = "inf"
    THEN (IF total_sales.k = "fin" THEN FZero ELSE NaN)
  ELSE IF total_sales.k = "inf" THEN PosInf
  ELSE IF total_sales.k = "ninf" THEN NegInf
  ELSE IF total_sales.n >= 0 THEN Fin(RoundedRatio(total_sales.n, grand_total.n))
  ELSE Fin(-RoundedRatio(-total_sales.n, grand_total.n))

\* round(x, 2): every float of the model already has two decimals
Round2(x) == x

\* the items of a sorted list of [key, item] pairs
Items(sorted) == [i \in 1..Len(sorted) |-> sorted[i].item]

\* the (region, statistics) items of region_stats with their percentages
RegionRows(stats, grand_total) ==
  [i \in 1..Len(stats) |->
     [key |-> Round2(stats[i].total),
      item |-> [region |-> stats[i].key,
                total_sales |-> Round2(stats[i].total),
                transaction_count |-> stats[i].count,
                percentage |-> Percentage(stats[i].total, grand_total)]]]

\* region_wise_sales: the items of the returned dict, in its order
region_wise_sales(transactions) ==
  Items(PySorted(RegionRows(GroupBy(transactions, "Region", <<>>),
                            GrandTotal(transactions, "Region", FZero)),
                 TRUE))

\* sorted_products[:n]
Slice(s, n) ==
  IF n >= 0 THEN SubSeq(s, 1, IF n < Len(s) THEN n ELSE Len(s))
  ELSE SubSeq(s, 1, IF Len(s) + n > 0 THEN Len(s) + n ELSE 0)

ProductRowsOf(stats) ==
  [i \in 1..Len(stats) |->
     [key |-> IntV(stats[i].total_qty),
      item |-> [product |-> stats[i].key,
                total_qty |-> stats[i].total_qty,
                total_revenue |-> Round2(stats[i].total)]]]

\* the (product, total_qty, total_revenue) tuples of the product groups
ProductRows(transactions) ==
  ProductRowsOf(GroupBy(transactions, "ProductName", <<>>))

\* a sort without reverse=True
SortProductsAsc(rows) == PySorted(rows, FALSE)

\* sorted(product_stats.items(), key=total_qty, reverse=True)
SortProductsDesc(rows) == PySorted(rows, TRUE)

\* top_selling_products
top_selling_products(transactions, n) ==
  Items(Slice(SortProductsDesc(ProductRows(transactions)), n))

\* an inclusive threshold
AtOrBelowThreshold(total_qty, threshold) == total_qty <= threshold

\* stats["total_qty"] < threshold
BelowThreshold(total_qty, threshold) == total_qty < threshold

\* the product tuples whose quantity is below the threshold
LowRows(rows, threshold) ==
  SelectSeq(rows, LAMBDA r : BelowThreshold(r.item.total_qty, threshold))

\* low_performing_products
low_performing_products(transactions, threshold) ==
  Items(PySorted(LowRows(ProductRows(transactions), threshold), FALSE))

\* total_revenue after one more record: a record whose coercion fails is
\* skipped
AddAmount(total, qty, price) ==
  IF qty.ok /\ price.ok THEN FAdd(total, FMulInt(qty.v.n, price.v)) ELSE total

RECURSIVE SumAmounts(_, _)
\* the accumulation loop of calculate_total_revenue: a missing Quantity or
\* UnitPrice counts as 0
SumAmounts(transactions, total) ==
  IF transactions = <<>> THEN total
  ELSE SumAmounts(Tail(transactions),
                  AddAmount(total,
                            PyInt(Get(Head(transactions), "Quantity", IntV(0))),
                            PyFloat(Get(Head(transactions), "UnitPrice", Fin(0)))))

\* calculate_total_revenue
calculate_total_revenue(transactions) == Round2(SumAmounts(transactions, FZero))

\* the quotient q of a division by den rounded on its remainder r (ties go
\* to the even neighbour)
RoundQuotient(q, r, den) ==
  IF 2 * r > den \/ (2 * r = den /\ q % 2 = 1) THEN q + 1 ELSE q

\* round(num / den, 2) in hundredths for an int den > 0
RoundDiv(num, den) ==
  IF num >= 0 THEN RoundQuotient(num \div den, num % den, den)
  ELSE -RoundQuotient((-num) \div den, (-num) % den, den)

\* round(total / purchases if purchases > 0 else 0.0, 2)
AvgOrderValue(total, purchases) ==
  IF purchases <= 0 THEN FZero
  ELSE IF total.k = "fin" THEN Fin(RoundDiv(total.n, purchases))
  ELSE total

\* str(txn.get(field, "")).strip()
FieldValue(txn, field) == Strip(PyStr(Get(txn, field, StrV(<<>>))))

\* the record is added to the group key
InGroup(c, key) == c.ok /\ c.key = key

\* the non-empty stripped values of field of the records that a view's loop
\* adds to the group key of keyfield: the set a group collects with .add()
CollectedSet(transactions, keyfield, key, field) ==
  {FieldValue(transactions[i], field) :
     i \in {j \in 1..Len(transactions) :
              InGroup(Contribution(transactions[j], keyfield), key)}} \ {<<>>}

RECURSIVE SortedStrings(_)
\* sorted(list(a_set)) for a set of strings
SortedStrings(S) ==
  IF S = {} THEN <<>>
  ELSE LET least == CHOOSE x \in S : \A y \in S \ {x} : StrLt(x, y)
       IN <<least>> \o SortedStrings(S \ {least})

\* the (customer, statistics) items of customer_stats after the finalize loop
CustomerRows(transactions, stats) ==
  [i \in 1..Len(stats) |->
     [key |-> Round2(stats[i].total),
      item |-> [customer |-> stats[i].key,
                total_spent |-> Round2(stats[i].total),
                purchase_count |-> stats[i].count,
                avg_order_value |-> AvgOrderValue(stats[i].total, stats[i].count),
                products_bought |->
                  SortedStrings(CollectedSet(transactions, "CustomerID",
                                             stats[i].key, "ProductName"))]]]

\* customer_analysis: the items of the returned dict, in its order
customer_analysis(transactions) ==
  Items(PySorted(CustomerRows(transactions,
                              GroupBy(transactions, "CustomerID", <<>>)),
                 TRUE))

DailyRowsOf(transactions, daily) ==
  [i \in 1..Len(daily) |->
     [key |-> StrV(daily[i].key),
      item |-> [date |-> daily[i].key,
                revenue |-> Round2(daily[i].total),
                transaction_count |-> daily[i].count,
                unique_customers |->
                  Cardinality(CollectedSet(transactions, "Date",
                                           daily[i].key, "CustomerID"))]]]

\* the (date, statistics) items of the daily dict before sorting
DailyRows(transactions) ==
  DailyRowsOf(transactions, GroupBy(transactions, "Date", <<>>))

\* the daily items left in insertion order
SortDailyNone(rows) == rows

\* sorted(daily.items(), key=lambda x: x[0])
SortDailyByDate(rows) == PySorted(rows, FALSE)

\* daily_sales_trend: the items of the returned dict, in its order
daily_sales_trend(transactions) ==
  Items(SortDailyByDate(DailyRows(transactions)))

RECURSIVE MaxFrom(_, _)
\* max(iterable, key=...): the first item is kept until a later one has a
\* strictly greater key
MaxFrom(rows, best) ==
  IF rows = <<>> THEN best
  ELSE MaxFrom(Tail(rows),
               IF KeyLt(best.key, Head(rows).key) THEN Head(rows) ELSE best)

PyMax(rows) == MaxFrom(Tail(rows), Head(rows))

\* the result of find_peak_sales_day when no date was grouped
NoPeak == [date |-> NoneV, revenue |-> FZero, transaction_count |-> 0]

\* the daily items with their revenue as key
RevenueKeyed(daily) ==
  [i \in 1..Len(daily) |-> [key |-> daily[i].total, item |-> daily[i]]]

\* (peak_date, round(revenue, 2), transaction_count)
PeakTriple(peak) ==
  [date |-> StrV(peak.key), revenue |-> Round2(peak.total),
   transaction_count |-> peak.count]

PeakOf(daily) ==
  IF daily = <<>> THEN NoPeak ELSE PeakTriple(PyMax(RevenueKeyed(daily)).item)

\* find_peak_sales_day
find_peak_sales_day(transactions) ==
  PeakOf(GroupBy(transactions, "Date", <<>>))

\* -------------------------------------------------------------- enrichment
BoolV(b) == [t |-> "bool", s |-> <<>>, n |-> IF b THEN 1 ELSE 0, k |-> "fin"]

\* the products the catalog service returns when the request succeeds: one
\* complete entry, one without a brand, one without a title, one without an id
Catalog ==
  << [id |-> IntV(101), title |-> StrV(<<"M", "a", "c", "B", "o", "o", "k">>),
      category |-> StrV(<<"l", "a", "p", "t", "o", "p", "s">>),
      brand |-> StrV(<<"A", "p", "p", "l", "e">>), rating |-> Fin(469)],
     [id |-> IntV(12), title |-> StrV(<<"P", "a", "d">>),
      category |-> StrV(<<"m", "i", "c", "e">>),
      brand |-> NoneV, rating |-> IntV(4)],
     [id |-> IntV(5), title |-> NoneV,
      category |-> StrV(<<"h", "o", "m", "e">>),
      brand |-> StrV(<<"I", "k", "e", "a">>), rating |-> Fin(350)],
     [title |-> StrV(<<"L", "a", "m", "p">>),
      category |-> StrV(<<"h", "o", "m", "e">>),
      brand |-> StrV(<<"I", "k", "e", "a">>), rating |-> Fin(410)] >>

\* fetch_all_products: the product list of a successful response, or [] when
\* the request raises a RequestException
FetchOutcomes == {Catalog, <<>>}

\* product_id is None or title is None
EntryDiscarded(product) ==
  Get(product, "id", NoneV) = NoneV \/ Get(product, "title", NoneV) = NoneV

RECURSIVE create_product_mapping_from(_, _)
create_product_mapping_from(api_products, product_map) ==
  IF api_products = <<>> THEN product_map
  ELSE LET product == Head(api_products)
           info == [title    |-> Get(product, "title", NoneV),
                    category |-> Get(product, "category", NoneV),
                    brand    |-> Get(product, "brand", NoneV),
                    rating   |-> Get(product, "rating", NoneV)]
           id == Get(product, "id", NoneV)
       IN create_product_mapping_from(
            Tail(api_products),
            IF EntryDiscarded(product) THEN product_map
            ELSE [k \in DOMAIN product_map \cup {id} |->
                    IF k = id THEN info ELSE product_map[k]])

\* create_product_mapping: a dict from product id to its info
create_product_mapping(api_products) ==
  create_product_mapping_from(api_products, [k \in {} |-> NoneV])

RECURSIVE FirstDigitRun(_, _)
\* the match of re.search(r"(\d+)", s): the first run of digits of s
FirstDigitRun(s, run) ==
  IF s = <<>> THEN run
  ELSE IF IsDigit(Head(s)) THEN FirstDigitRun(Tail(s), Append(run, Head(s)))
  ELSE IF run # <<>> THEN run
  ELSE FirstDigitRun(Tail(s), run)

\* extract_numeric_id
extract_numeric_id(product_id) ==
  IF product_id = NoneV THEN NoneV
  ELSE LET m == FirstDigitRun(PyStr(product_id), <<>>)
       IN IF m # <<>> THEN IntV(DigitsVal(m, 0)) ELSE NoneV

\* pid_num is not None and pid_num in product_mapping
IdMatches(pid_num, product_mapping) ==
  pid_num # NoneV /\ pid_num \in DOMAIN product_mapping

api_fields == {"API_Category", "API_Brand", "API_Rating", "API_Match"}

\* the enriched_txn built by one iteration of the loop of enrich_sales_data
EnrichOne(txn, product_mapping) ==
  LET pid_num == extract_numeric_id(Get(txn, "ProductID", NoneV))
      match == IdMatches(pid_num, product_mapping)
      info == product_mapping[pid_num]
  IN [f \in DOMAIN txn \cup api_fields |->
        CASE f = "API_Category" -> IF match THEN info.category ELSE NoneV
          [] f = "API_Brand" -> IF match THEN info.brand ELSE NoneV
          [] f = "API_Rating" -> IF match THEN info.rating ELSE NoneV
          [] f = "API_Match" -> BoolV(match)
          [] OTHER -> txn[f]]

RECURSIVE EnrichLoop(_, _, _)
\* the loop of enrich_sales_data: enriched_txn is built for every
\* transaction and then dropped, the list enriched is never appended to
EnrichLoop(transactions, product_mapping, enriched) ==
  IF transactions = <<>> THEN enriched
  ELSE LET enriched_txn == EnrichOne(Head(transactions), product_mapping)
       IN EnrichLoop(Tail(transactions), product_mapping, enriched)

\* enrich_sales_data: the returned list
enrich_sales_data(transactions, product_mapping) ==
  EnrichLoop(transactions, product_mapping, <<>>)

\* what the file system does to enrich_sales_data: all calls succeed,
\* os.makedirs raises, or open/write raises
IoOutcomes == {"ok", "makedirs_fails", "write_fails"}

\* ------------------------------------------------------ generate_sales_report
\* -x on floats
FNeg(x) ==
  CASE x.k = "fin" -> Fin(-x.n)
    [] x.k = "inf" -> NegInf
    [] x.k = "ninf" -> PosInf
    [] OTHER -> NaN

\* the two decimals that money() and fmt_pct() show of a float: every float
\* of the model already has two decimals
Shown(x) == x

\* total_revenue and total_transactions after one more record
AddToTotals(acc, c) ==
  IF c.ok THEN [total_revenue |-> FAdd(acc.total_revenue, c.amount),
                total_transactions |-> acc.total_transactions + 1]
  ELSE acc

RECURSIVE ReportTotals(_, _)
\* the loop of the overall summary: total_revenue and total_transactions
\* over the records whose safe_amount does not raise
ReportTotals(transactions, acc) ==
  IF transactions = <<>> THEN acc
  ELSE ReportTotals(Tail(transactions),
                    AddToTotals(acc, Contribution(Head(transactions),
                                                  "TransactionID")))

\* (min(dates), max(dates)) of a sorted list of dates
DateRangeOf(sorted) ==
  IF sorted = <<>> THEN <<NoneV, NoneV>>
  ELSE <<StrV(sorted[1]), StrV(sorted[Len(sorted)])>>

\* safe_date_range: (min, max) of the non-empty stripped Date strings
safe_date_range(txns) ==
  DateRangeOf(SortedStrings(
    {Strip(txns[i].Date.s) :
       i \in {j \in 1..Len(txns) :
                "Date" \in DOMAIN txns[j] /\ txns[j].Date.t = "str"}} \ {<<>>}))

\* (v["total_sales"] / grand_total * 100) if grand_total else 0.0: the test
\* is the truth value of grand_total, which is false for 0.0 only
ReportPercentage(total_sales, grand_total) ==
  IF grand_total.k = "fin" /\ grand_total.n = 0 THEN FZero
  ELSE IF grand_total.k = "nan" THEN NaN
  ELSE IF FGt(grand_total, FZero) THEN Percentage(total_sales, grand_total)
  ELSE Percentage(FNeg(total_sales), FNeg(grand_total))

\* the (region, sales, pct, count) tuples of region_stats
ReportRegionRowsOf(region_stats, grand_total) ==
  [i \in 1..Len(region_stats) |->
     [key |-> region_stats[i].total,
      item |-> [region |-> region_stats[i].key,
                sales |-> Shown(region_stats[i].total),
                pct |-> Shown(ReportPercentage(region_stats[i].total,
                                               grand_total)),
                transaction_count |-> region_stats[i].count]]]

\* region_rows, sorted by sales in descending order
ReportRegionRows(transactions) ==
  Items(PySorted(ReportRegionRowsOf(GroupBy(transactions, "Region", <<>>),
                                    GrandTotal(transactions, "Region", FZero)),
                 TRUE))

\* top_products: the five products of greatest quantity
ReportTopProducts(transactions) ==
  Items(Slice(PySorted(ProductRows(transactions), TRUE), 5))

\* the (customer, spent, count) items of customer_stats
ReportCustomerRowsOf(customer_stats) ==
  [i \in 1..Len(customer_stats) |->
     [key |-> customer_stats[i].total,
      item |-> [customer |-> customer_stats[i].key,
                spent |-> Shown(customer_stats[i].total),
                count |-> customer_stats[i].count]]]

\* top_customers: the five customers of greatest spending
ReportTopCustomers(transactions) ==
  Items(Slice(PySorted(ReportCustomerRowsOf(
                         GroupBy(transactions, "CustomerID", <<>>)),
                       TRUE), 5))

\* daily_rows, sorted by date
ReportDailyRows(transactions) ==
  Items(PySorted(DailyRows(transactions), FALSE))

\* the daily rows with their revenue as key
ReportRevenueKeyed(daily_rows) ==
  [i \in 1..Len(daily_rows) |->
     [key |-> daily_rows[i].revenue, item |-> daily_rows[i]]]

\* (best_day[0], best_day[1], best_day[2])
BestTriple(best_day) ==
  [date |-> StrV(best_day.date), revenue |-> best_day.revenue,
   transaction_count |-> best_day.transaction_count]

\* best_selling: max(daily_rows, key=revenue) over the rows sorted by date
ReportBestSelling(daily_rows) ==
  IF daily_rows = <<>> THEN NoPeak
  ELSE BestTriple(PyMax(ReportRevenueKeyed(daily_rows)).item)

\* low_products: the products of quantity below 10, in ascending quantity
ReportLowProducts(transactions) ==
  Items(PySorted(SelectSeq(ProductRows(transactions),
                           LAMBDA r : r.item.total_qty < 10),
                 FALSE))

\* the (region, average) items of out
AverageRows(agg) ==
  [i \in 1..Len(agg) |->
     [key |-> AvgOrderValue(agg[i].total, agg[i].count),
      item |-> [region |-> agg[i].key,
                average |-> AvgOrderValue(agg[i].total, agg[i].count)]]]

\* avg_txn_value_per_region, sorted by the average in descending order (the
\* sort key is the average as shown, with two decimals)
avg_txn_value_per_region(txns) ==
  Items(PySorted(AverageRows(GroupBy(txns, "Region", <<>>)), TRUE))

\* bool(m)
Truth(m) ==
  CASE m = NoneV -> FALSE
    [] m.t = "str" -> m.s # <<>>
    [] m.t = "float" -> ~(m.k = "fin" /\ m.n = 0)
    [] OTHER -> m.n # 0

\* bool(t.get("API_Match", False))
ApiMatchTruth(t) == Truth(Get(t, "API_Match", BoolV(FALSE)))

\* unenriched_products: the sorted distinct product names of the enriched
\* records that did not match
unenriched_products(enriched_txns) ==
  SortedStrings({FieldValue(enriched_txns[i], "ProductName") :
                   i \in {j \in 1..Len(enriched_txns) :
                            ~ApiMatchTruth(enriched_txns[j])}} \ {<<>>})

\* a rate that is 100 percent when nothing was attempted
SuccessRateOfNone(success_enriched, total_enriched_attempt) ==
  IF total_enriched_attempt = 0 THEN Fin(100 * Scale)
  ELSE Fin(RoundedRatio(success_enriched, total_enriched_attempt))

\* (success_enriched / total_enriched_attempt * 100) if total_enriched_attempt
\* else 0.0
SuccessRate(success_enriched, total_enriched_attempt) ==
  IF total_enriched_attempt = 0 THEN FZero
  ELSE Fin(RoundedRatio(success_enriched, total_enriched_attempt))

\* the number of enriched records with a true API_Match
SuccessCount(enriched_txns) ==
  Cardinality({i \in 1..Len(enriched_txns) : ApiMatchTruth(enriched_txns[i])})

\* the values the report text shows
ReportValues(transactions, enriched_txns, totals, daily_rows, success_enriched) ==
  [records_processed |-> Len(transactions),
   total_revenue |-> Shown(totals.total_revenue),
   total_transactions |-> totals.total_transactions,
   avg_order_value |-> AvgOrderValue(totals.total_revenue,
                                     totals.total_transactions),
   date_range |-> safe_date_range(transactions),
   region_rows |-> ReportRegionRows(transactions),
   top_products |-> ReportTopProducts(transactions),
   top_customers |-> ReportTopCustomers(transactions),
   daily_rows |-> daily_rows,
   best_selling |-> ReportBestSelling(daily_rows),
   low_products |-> ReportLowProducts(transactions),
   avg_region |-> avg_txn_value_per_region(transactions),
   total_enriched_attempt |-> Len(enriched_txns),
   success_enriched |-> success_enriched,
   success_rate |-> Shown(SuccessRate(success_enriched, Len(enriched_txns))),
   missing_products |-> unenriched_products(enriched_txns)]

\* what generate_sales_report computes and shows in the report text
generate_sales_report(transactions, enriched_transactions_arg) ==
  ReportValues(transactions, enriched_transactions_arg,
               ReportTotals(transactions,
                            [total_revenue |-> FZero, total_transactions |-> 0]),
               ReportDailyRows(transactions),
               SuccessCount(enriched_transactions_arg))

\* what the file system does to the write of the report: it succeeds, or
\* os.makedirs, open or write raises and the exception is caught
ReportIoOutcomes == {"ok", "write_fails"}

\* -------------------------------------------------------------- the inputs
\* the answers to the filter prompts of main: (region, min_amount, max_amount)
FilterChoices ==
  { [region |-> NoneV, min_amount |-> NoneV, max_amount |-> NoneV],
    [region |-> StrV(<<"N", "O", "R", "T", "H">>), min_amount |-> NoneV,
     max_amount |-> NoneV],
    [region |-> NoneV, min_amount |-> Fin(1000000), max_amount |-> NoneV],
    [region |-> NoneV, min_amount |-> Fin(250000), max_amount |-> Fin(1800000)],
    [region |-> StrV(<<"n", "o", "r", "t", "h">>), min_amount |-> Fin(2000000),
     max_amount |-> Fin(9000000)] }

\* the arguments (n, threshold) of top_selling_products and
\* low_performing_products; main passes (5, 10)
AnalysisArgs == { <<5, 10>>, <<1, 2>>, <<2, 12>> }

\* the records a caller other than main can pass to a view or to the report:
\* records as the parser builds them (Amounts 90000.00, 2500.00, 0.00 and
\* -11.00) and records whose numbers do not coerce
Rec_Laptop == ParseLine(Line_Laptop).txn
Rec_Mouse == ParseLine(Line_Mouse).txn
Rec_Qty0 == ParseLine(Line_Qty0).txn
Rec_NegPrice == ParseLine(Line_NegPrice).txn
\* int("two") raises ValueError
Rec_BadQty == [Rec_Laptop EXCEPT !["Quantity"] = StrV(<<"t", "w", "o">>)]
\* float(None) raises TypeError
Rec_NoPrice == [Rec_Mouse EXCEPT !["UnitPrice"] = NoneV]
\* int(float("inf")) raises OverflowError
Rec_InfQty == [Rec_Mouse EXCEPT !["Quantity"] = PosInf]

RecordPool ==
  {Rec_Laptop, Rec_Mouse, Rec_Qty0, Rec_NegPrice,
   Rec_BadQty, Rec_NoPrice, Rec_InfQty}

\* the enriched lists passed with a transaction list: none, or one enriched
\* record per transaction
EnrichedChoices(transactions) ==
  {<<>>,
   [i \in 1..Len(transactions) |->
      EnrichOne(transactions[i], create_product_mapping(Catalog))]}

\* ------------------------------------------------------------------- state
VARIABLES
  pc,                    \* the stage main has completed
  raw_lines,             \* the lines read from the data file
  parsed_transactions,   \* the list returned by parse_transactions
  region, min_amount, max_amount,   \* the filters entered by the user
  valid_transactions,    \* the list returned by validate_and_filter
  invalid_count, summary,
  n_arg, threshold_arg,  \* the arguments of the product views
  region_perf, top_products, low_products,
  total_rev, cust_stats, daily_trend, peak_day,
  api_products, product_map,
  enriched_transactions, \* the list returned by enrich_sales_data
  enriched_file,         \* the side file data/enriched_sales_data.txt
  io_outcome,            \* what the file system did to enrich_sales_data
  report,                \* what generate_sales_report computed
  report_file            \* whether output/sales_report.txt was written

vars ==
  <<pc, raw_lines, parsed_transactions, region, min_amount, max_amount,
    valid_transactions, invalid_count, summary, n_arg, threshold_arg,
    region_perf, top_products, low_products, total_rev, cust_stats,
    daily_trend, peak_day, api_products, product_map,
    enriched_transactions, enriched_file, io_outcome, report, report_file>>

NoSummary ==
  [total_input |-> 0, invalid |-> 0, valid_records |-> 0,
   filtered_by_region |-> 0, filtered_by_amount |-> 0, final_count |-> 0]

NoFile == [written |-> FALSE, rows |-> <<>>]

\* the value of a name that main has not assigned yet
Unset == [unset |-> TRUE]

\* the whole parsed list, rejected and filtered records included
AllParsed == parsed_transactions

\* the list main passes to every view and to generate_sales_report
AnalyzedSet == valid_transactions

Init ==
  /\ pc = "start"
  /\ raw_lines \in UNION {[1..k -> LinePool] : k \in 0..MaxLines}
  /\ parsed_transactions = <<>>
  /\ region = NoneV /\ min_amount = NoneV /\ max_amount = NoneV
  /\ valid_transactions = <<>>
  /\ invalid_count = 0
  /\ summary = NoSummary
  /\ n_arg = 0 /\ threshold_arg = 0
  /\ region_perf = <<>> /\ top_products = <<>> /\ low_products = <<>>
  /\ api_products = <<>>
  /\ product_map = [k \in {} |-> NoneV]
  /\ enriched_transactions = <<>>
  /\ enriched_file = NoFile
  /\ total_rev = Unset /\ cust_stats = <<>> /\ daily_trend = <<>>
  /\ peak_day = Unset
  /\ io_outcome = "none"
  /\ report = Unset
  /\ report_file = FALSE

\* main [2/10]: parsed_transactions = parse_transactions(raw_lines)
Parse ==
  /\ pc = "start"
  /\ parsed_transactions' = parse_transactions(raw_lines)
  /\ pc' = "parsed"
  /\ UNCHANGED <<raw_lines, region, min_amount, max_amount, valid_transactions,
                 invalid_count, summary, n_arg, threshold_arg, region_perf,
                 top_products, low_products, api_products, product_map,
                 enriched_transactions, enriched_file,
                 total_rev, cust_stats, daily_trend, peak_day,
                 io_outcome, report, report_file>>

\* main [3/10]: the user answers the filter prompts
ChooseFilters ==
  /\ pc = "parsed"
  /\ \E f \in FilterChoices :
       /\ region' = f.region
       /\ min_amount' = f.min_amount
       /\ max_amount' = f.max_amount
  /\ pc' = "filters"
  /\ UNCHANGED <<raw_lines, parsed_transactions, valid_transactions,
                 invalid_count, summary, n_arg, threshold_arg, region_perf,
                 top_products, low_products, api_products, product_map,
                 enriched_transactions, enriched_file,
                 total_rev, cust_stats, daily_trend, peak_day,
                 io_outcome, report, report_file>>

\* main [4/10]: validate_and_filter(parsed_transactions, region, min, max);
\* the records that pass are normalised in place, so the parsed list changes
\* with them
Validate ==
  /\ pc = "filters"
  /\ IF ValidationRaises(parsed_transactions)
       THEN /\ pc' = "failed"
            /\ UNCHANGED <<parsed_transactions, valid_transactions,
                           invalid_count, summary>>
       ELSE \E r \in {validate_and_filter(parsed_transactions, region,
                                           min_amount, max_amount)} :
              /\ valid_transactions' = r.current
              /\ invalid_count' = r.invalid_count
              /\ summary' = r.filter_summary
              /\ parsed_transactions' = NormalisedList(parsed_transactions)
              /\ pc' = "validated"
  /\ UNCHANGED <<raw_lines, region, min_amount, max_amount, n_arg,
                 threshold_arg, region_perf, top_products, low_products,
                 api_products, product_map, enriched_transactions, enriched_file,
                 total_rev, cust_stats, daily_trend, peak_day,
                 io_outcome, report, report_file>>

\* main [5/10]: the aggregation views of the validated set
Analyze ==
  /\ pc = "validated"
  /\ \E a \in AnalysisArgs :
       /\ n_arg' = a[1]
       /\ threshold_arg' = a[2]
       /\ top_products' = top_selling_products(AnalyzedSet, a[1])
       /\ low_products' = low_performing_products(AnalyzedSet, a[2])
  /\ total_rev' = calculate_total_revenue(AnalyzedSet)
  /\ region_perf' = region_wise_sales(AnalyzedSet)
  /\ cust_stats' = customer_analysis(AnalyzedSet)
  /\ daily_trend' = daily_sales_trend(AnalyzedSet)
  /\ peak_day' = find_peak_sales_day(AnalyzedSet)
  /\ pc' = "analyzed"
  /\ UNCHANGED <<raw_lines, parsed_transactions, region, min_amount,
                 max_amount, valid_transactions, invalid_count, summary,
                 api_products, product_map, enriched_transactions,
                 enriched_file, io_outcome, report, report_file>>

\* main [6/10]: api_products = fetch_all_products()
Fetch ==
  /\ pc = "analyzed"
  /\ api_products' \in FetchOutcomes
  /\ pc' = "fetched"
  /\ UNCHANGED <<raw_lines, parsed_transactions, region, min_amount,
                 max_amount, valid_transactions, invalid_count, summary,
                 n_arg, threshold_arg, region_perf, top_products,
                 low_products, total_rev, cust_stats, daily_trend, peak_day,
                 product_map, enriched_transactions, enriched_file,
                 io_outcome, report, report_file>>

\* main [7/10]: create_product_mapping, then enrich_sales_data, which also
\* writes the side file; an exception of os.makedirs is caught by main only
Enrich ==
  /\ pc = "fetched"
  /\ product_map' = create_product_mapping(api_products)
  /\ \E io \in IoOutcomes :
       \E enriched \in {enrich_sales_data(valid_transactions, product_map')} :
          /\ io_outcome' = io
          /\ IF io = "makedirs_fails"
               THEN /\ pc' = "failed"
                    /\ UNCHANGED <<enriched_transactions, enriched_file>>
               ELSE /\ pc' = "enriched"
                    /\ enriched_transactions' = enriched
                    /\ enriched_file' = IF io = "ok"
                                          THEN [written |-> TRUE, rows |-> enriched]
                                          ELSE NoFile
  /\ UNCHANGED <<raw_lines, parsed_transactions, region, min_amount,
                 max_amount, valid_transactions, invalid_count, summary,
                 n_arg, threshold_arg, region_perf, top_products,
                 low_products, total_rev, cust_stats, daily_trend, peak_day,
                 api_products, report, report_file>>

\* main [9/10]: generate_sales_report(valid_transactions,
\* enriched_transactions); a failure of the write is caught inside it
Report ==
  /\ pc = "enriched"
  /\ report' = generate_sales_report(AnalyzedSet, enriched_transactions)
  /\ \E io \in ReportIoOutcomes : report_file' = (io = "ok")
  /\ pc' = "reported"
  /\ UNCHANGED <<raw_lines, parsed_transactions, region, min_amount,
                 max_amount, valid_transactions, invalid_count, summary,
                 n_arg, threshold_arg, region_perf, top_products,
                 low_products, total_rev, cust_stats, daily_trend, peak_day,
                 api_products, product_map, enriched_transactions,
                 enriched_file, io_outcome>>

Next ==
  Parse \/ ChooseFilters \/ Validate \/ Analyze \/ Fetch \/ Enrich \/ Report

Spec == Init /\ [][Next]_vars

\* ------------------------------ a direct call of the parser of file_handler_dif
\* main never calls file_handler_dif; a caller passes it the lines of a data
\* file
InitDif ==
  /\ pc = "dif_start"
  /\ raw_lines \in UNION {[1..k -> LinePool] : k \in 0..MaxLines}
  /\ parsed_transactions = <<>>
  /\ region = NoneV /\ min_amount = NoneV /\ max_amount = NoneV
  /\ valid_transactions = <<>>
  /\ invalid_count = 0
  /\ summary = NoSummary
  /\ n_arg = 0 /\ threshold_arg = 0
  /\ region_perf = <<>> /\ top_products = <<>> /\ low_products = <<>>
  /\ api_products = <<>>
  /\ product_map = [k \in {} |-> NoneV]
  /\ enriched_transactions = <<>>
  /\ enriched_file = NoFile
  /\ total_rev = Unset /\ cust_stats = <<>> /\ daily_trend = <<>>
  /\ peak_day = Unset
  /\ io_outcome = "none"
  /\ report = Unset
  /\ report_file = FALSE

\* parsed_transactions = file_handler_dif.parse_transactions(raw_lines), or
\* the ValueError of the call
ParseDif ==
  /\ pc = "dif_start"
  /\ \E r \in {dif_parse_transactions(raw_lines)} :
       /\ parsed_transactions' = r.data
       /\ pc' = IF r.raised THEN "dif_raised" ELSE "dif_parsed"
  /\ UNCHANGED <<raw_lines, region, min_amount, max_amount, valid_transactions,
                 invalid_count, summary, n_arg, threshold_arg, region_perf,
                 top_products, low_products, api_products, product_map,
                 enriched_transactions, enriched_file,
                 total_rev, cust_stats, daily_trend, peak_day,
                 io_outcome, report, report_file>>

NextDif == ParseDif

SpecDif == InitDif /\ [][NextDif]_vars

\* ------------------------------------- direct calls of the views and the report
\* int(txn.get("Quantity")) raises an OverflowError, which the except clause
\* (ValueError, TypeError, AttributeError) of a view of data_processor does
\* not catch
CoercionEscapes(txn) ==
  PyInt(Get(txn, "Quantity", NoneV)).err = "OverflowError"

ViewRaises(transactions) ==
  \E i \in 1..Len(transactions) : CoercionEscapes(transactions[i])

\* a caller holds a list of records and a list of enriched records
InitViews ==
  /\ pc = "call"
  /\ valid_transactions \in UNION {[1..k -> RecordPool] : k \in 0..MaxRecords}
  /\ enriched_transactions \in EnrichedChoices(valid_transactions)
  /\ raw_lines = <<>>
  /\ parsed_transactions = <<>>
  /\ region = NoneV /\ min_amount = NoneV /\ max_amount = NoneV
  /\ invalid_count = 0
  /\ summary = NoSummary
  /\ n_arg = 0 /\ threshold_arg = 0
  /\ region_perf = <<>> /\ top_products = <<>> /\ low_products = <<>>
  /\ api_products = <<>>
  /\ product_map = [k \in {} |-> NoneV]
  /\ enriched_file = NoFile
  /\ total_rev = Unset /\ cust_stats = <<>> /\ daily_trend = <<>>
  /\ peak_day = Unset
  /\ io_outcome = "none"
  /\ report = Unset
  /\ report_file = FALSE

\* the seven views of data_processor called on the list: they return, or the
\* exception of a record leaves them
CallViews ==
  /\ pc = "call"
  /\ IF ViewRaises(valid_transactions)
       THEN /\ pc' = "views_raised"
            /\ UNCHANGED <<n_arg, threshold_arg, top_products, low_products,
                           total_rev, region_perf, cust_stats, daily_trend,
                           peak_day>>
       ELSE /\ \E a \in AnalysisArgs :
                 /\ n_arg' = a[1]
                 /\ threshold_arg' = a[2]
                 /\ top_products' = top_selling_products(valid_transactions, a[1])
                 /\ low_products'
                      = low_performing_products(valid_transactions, a[2])
            /\ total_rev' = calculate_total_revenue(valid_transactions)
            /\ region_perf' = region_wise_sales(valid_transactions)
            /\ cust_stats' = customer_analysis(valid_transactions)
            /\ daily_trend' = daily_sales_trend(valid_transactions)
            /\ peak_day' = find_peak_sales_day(valid_transactions)
            /\ pc' = "views_returned"
  /\ UNCHANGED <<raw_lines, parsed_transactions, region, min_amount,
                 max_amount, valid_transactions, invalid_count, summary,
                 api_products, product_map, enriched_transactions,
                 enriched_file, io_outcome, report, report_file>>

\* generate_sales_report called on the two lists
CallReport ==
  /\ pc = "call"
  /\ report' = generate_sales_report(valid_transactions, enriched_transactions)
  /\ \E io \in ReportIoOutcomes : report_file' = (io = "ok")
  /\ pc' = "report_returned"
  /\ UNCHANGED <<raw_lines, parsed_transactions, region, min_amount,
                 max_amount, valid_transactions, invalid_count, summary,
                 n_arg, threshold_arg, region_perf, top_products,
                 low_products, total_rev, cust_stats, daily_trend, peak_day,
                 api_products, product_map, enriched_transactions,
                 enriched_file, io_outcome>>

NextViews == CallViews \/ CallReport

SpecViews == InitViews /\ [][NextViews]_vars

\* ------------------------------------------------------------- properties
\* the state right after validate_and_filter returned, and the state right
\* after the aggregation views returned
AfterValidate == pc = "validated"
AfterAnalyze == pc = "analyzed"

Quantity(t) == t["Quantity"].n
UnitPrice(t) == t["UnitPrice"]
\* Amount = Quantity x UnitPrice
Amount(t) == FMulInt(Quantity(t), UnitPrice(t))

RECURSIVE SumOver(_, _)
\* the sum of f over the finite set S of indices
SumOver(S, f) ==
  IF S = {} THEN 0
  ELSE LET i == CHOOSE j \in S : TRUE IN f[i] + SumOver(S \ {i}, f)

\* C1: every transaction validate_and_filter returns has Quantity > 0 and
\* UnitPrice > 0, so that its Amount is positive
C1_ReturnedPositive ==
  AfterValidate =>
    \A i \in 1..Len(valid_transactions) :
      /\ Quantity(valid_transactions[i]) > 0
      /\ FGt(UnitPrice(valid_transactions[i]), FZero)
      /\ FGt(Amount(valid_transactions[i]), FZero)

\* C2: enrich_sales_data returns one enriched record per input transaction,
\* in the input order, each carrying the eight base fields of its transaction
C2_EnrichedOneToOne ==
  pc = "enriched" =>
    /\ Len(enriched_transactions) = Len(valid_transactions)
    /\ \A i \in 1..Len(enriched_transactions) :
         \A j \in 1..Len(required_fields) :
           enriched_transactions[i][required_fields[j]]
             = valid_transactions[i][required_fields[j]]

\* the id of the claim: the first run of decimal digits of ProductID
ClaimedId(t) == extract_numeric_id(t["ProductID"])

\* C3: the enriched record of a transaction whose id is a key of the product
\* mapping has API_Match = true and the category, brand and rating of the
\* mapping entry; the enriched record of any other transaction has
\* API_Match = false and the three API fields null
C3_EnrichedFields ==
  pc = "enriched" =>
    \A i \in 1..Len(valid_transactions) :
      /\ i \in DOMAIN enriched_transactions
      /\ LET t == valid_transactions[i]
             e == enriched_transactions[i]
         IN IF ClaimedId(t) # NoneV /\ ClaimedId(t) \in DOMAIN product_map
              THEN /\ e["API_Match"] = BoolV(TRUE)
                   /\ e["API_Category"] = product_map[ClaimedId(t)].category
                   /\ e["API_Brand"] = product_map[ClaimedId(t)].brand
                   /\ e["API_Rating"] = product_map[ClaimedId(t)].rating
              ELSE /\ e["API_Match"] = BoolV(FALSE)
                   /\ e["API_Category"] = NoneV
                   /\ e["API_Brand"] = NoneV
                   /\ e["API_Rating"] = NoneV

\* the validation rules as the claim lists them
FailsARule(t) ==
  \/ \E j \in 1..Len(required_fields) :
       \/ required_fields[j] \notin DOMAIN t
       \/ t[required_fields[j]] \in {NoneV, StrV(<<>>)}
  \/ ~StartsWith(PyStr(t["TransactionID"]), "T")
  \/ ~StartsWith(PyStr(t["ProductID"]), "P")
  \/ ~StartsWith(PyStr(t["CustomerID"]), "C")
  \/ ~PyInt(t["Quantity"]).ok
  \/ ~PyFloat(t["UnitPrice"]).ok
  \/ PyInt(t["Quantity"]).v.n <= 0
  \/ FLe(PyFloat(t["UnitPrice"]).v, FZero)

C5_RegionCountsSum ==
  AfterAnalyze =>
    SumOver(DOMAIN region_perf,
            [i \in DOMAIN region_perf |-> region_perf[i].transaction_count])
      = Len(valid_transactions)

\* C5 happens: two validated transactions fell into one region group
C5_Witness ==
  /\ pc = "analyzed"
  /\ Len(valid_transactions) = 2
  /\ Len(region_perf) = 1
  /\ region_perf[1].transaction_count = 2

RECURSIVE FSum(_)
\* the float sum of a sequence of floats
FSum(s) == IF s = <<>> THEN FZero ELSE FAdd(Head(s), FSum(Tail(s)))

\* the grand total of Amount over the aggregated set
TotalAmount(transactions) ==
  FSum([i \in 1..Len(transactions) |-> Amount(transactions[i])])

PercentageSum ==
  FSum([i \in 1..Len(region_perf) |-> region_perf[i].percentage])

\* 100.00 within the rounding of one percentage per region (half a
\* hundredth each)
IsHundred(x, regions) ==
  /\ x.k = "fin"
  /\ 2 * (x.n - 100 * Scale) <= regions
  /\ 2 * (100 * Scale - x.n) <= regions

\* C6: the percentages of region_wise_sales sum to 100 within rounding
\* tolerance when the grand total of the aggregated set is > 0, and are all
\* 0 when the grand total is 0
C6_PercentagesSum ==
  AfterAnalyze =>
    /\ FGt(TotalAmount(valid_transactions), FZero)
         => IsHundred(PercentageSum, Len(region_perf))
    /\ FEq(TotalAmount(valid_transactions), FZero)
         => \A i \in 1..Len(region_perf) : region_perf[i].percentage = FZero

ProductOf(t) == Strip(PyStr(t["ProductName"]))
ProductsOf(transactions) ==
  {ProductOf(transactions[i]) : i \in 1..Len(transactions)}

\* the summed Quantity of the product p
QtyOf(transactions, p) ==
  SumOver({i \in 1..Len(transactions) : ProductOf(transactions[i]) = p},
          [i \in 1..Len(transactions) |-> Quantity(transactions[i])])

\* C8: low_performing_products(transactions, threshold) returns exactly the
\* products whose summed Quantity is below threshold, once each, with that
\* sum, in ascending order of total_qty
C8_LowPerforming ==
  AfterAnalyze =>
    /\ {low_products[i].product : i \in 1..Len(low_products)}
         = {p \in ProductsOf(valid_transactions) :
              QtyOf(valid_transactions, p) < threshold_arg}
    /\ \A i, j \in 1..Len(low_products) :
         low_products[i].product = low_products[j].product => i = j
    /\ \A i \in 1..Len(low_products) :
         /\ low_products[i].total_qty
              = QtyOf(valid_transactions, low_products[i].product)
         /\ low_products[i].total_qty < threshold_arg
    /\ \A i \in 1..(Len(low_products) - 1) :
         low_products[i].total_qty <= low_products[i + 1].total_qty

\* C8 happens: a product whose total_qty equals the threshold was left out
\* and another product was returned
C8_Witness ==
  /\ pc = "analyzed"
  /\ \E p \in ProductsOf(valid_transactions) :
       QtyOf(valid_transactions, p) = threshold_arg
  /\ Len(low_products) = 1

\* the filters as the claim states them
PassesFilters(t) ==
  /\ region # NoneV => Lower(Strip(PyStr(t["Region"]))) = Lower(Strip(PyStr(region)))
  /\ min_amount # NoneV => FGe(Amount(t), min_amount)
  /\ max_amount # NoneV => FLe(Amount(t), max_amount)

KeptByClaim(t) == ~FailsARule(t) /\ PassesFilters(t)

\* C9: the set validate_and_filter returns is exactly the valid records that
\* match the region filter case-insensitively and lie within the inclusive
\* amount bounds, for the filters that are set; min_amount = 10000 on
\* {Laptop 2 x 45000, Mouse 5 x 500} retains only the Laptop transaction
C9_FinalSet ==
  AfterValidate =>
    /\ valid_transactions = SelectSeq(parsed_transactions, KeptByClaim)
    /\ ( /\ raw_lines = <<Line_Laptop, Line_Mouse>>
         /\ region = NoneV /\ min_amount = Fin(10000 * Scale) /\ max_amount = NoneV )
         => /\ Len(valid_transactions) = 1
            /\ valid_transactions[1]["ProductName"]
                 = StrV(<<"L", "a", "p", "t", "o", "p">>)

\* C9 happens: both amount bounds are set, a transaction whose Amount equals
\* min_amount and one whose Amount equals max_amount are both retained
C9_Witness ==
  /\ pc = "validated"
  /\ min_amount # NoneV /\ max_amount # NoneV
  /\ Len(valid_transactions) = 2
  /\ \E i \in 1..2 : FEq(Amount(valid_transactions[i]), min_amount)
  /\ \E i \in 1..2 : FEq(Amount(valid_transactions[i]), max_amount)

\* the fields of a raw line, split on "|" and trimmed
FieldsOf(line) ==
  LET raw == Split(line, "|") IN [i \in 1..Len(raw) |-> Strip(raw[i])]

NoCommas(s) == SelectSeq(s, LAMBDA c : c # ",")

\* the lines the claim says yield a Transaction
Accepted(line) ==
  /\ Len(FieldsOf(line)) >= 8
  /\ IntOfStr(NoCommas(FieldsOf(line)[5])).ok
  /\ FloatOfStr(NoCommas(FieldsOf(line)[6])).ok

North == <<"N", "o", "r", "t", "h">>
South == <<"S", "o", "u", "t", "h">>
Laptop == <<"L", "a", "p", "t", "o", "p">>
Mouse == <<"M", "o", "u", "s", "e">>

C12_Scenario ==
  /\ AfterAnalyze
  /\ raw_lines = <<Line_Laptop, Line_Mouse>>
  /\ Len(valid_transactions) = 2

C12_TwoTransactions ==
  C12_Scenario =>
    /\ total_rev = Fin(9250000)
    /\ Len(region_perf) = 2
    /\ region_perf[1].region = North
    /\ region_perf[1].total_sales = Fin(9000000)
    /\ region_perf[1].percentage = Fin(9730)
    /\ region_perf[2].region = South
    /\ region_perf[2].total_sales = Fin(250000)
    /\ region_perf[2].percentage = Fin(270)
    /\ top_products[1].product = Mouse /\ top_products[1].total_qty = 5
    /\ n_arg >= 2 =>
         /\ Len(top_products) = 2
         /\ top_products[2].product = Laptop /\ top_products[2].total_qty = 2

C12_Witness == C12_Scenario /\ n_arg >= 2 /\ Len(top_products) = 2

\* the stage after generate_sales_report returned
AfterReport == pc = "reported"

\* the stripped values of a field over a list of transactions
FieldSet(transactions, field) ==
  {Strip(PyStr(transactions[i][field])) : i \in 1..Len(transactions)}

\* the values and the sum of one field over the rows of a view
ColumnSet(rows, field) == {rows[i][field] : i \in 1..Len(rows)}
ColumnSum(rows, field) ==
  SumOver(1..Len(rows), [i \in 1..Len(rows) |-> rows[i][field]])

\* a view's groups are those of the validated set and its counts add up to
\* the size of the validated set
GroupsOfValidated(rows, keycolumn, countcolumn, field) ==
  /\ ColumnSet(rows, keycolumn) = FieldSet(valid_transactions, field)
  /\ ColumnSum(rows, countcolumn) = Len(valid_transactions)

\* the rows of a product listing are products of the validated set with the
\* quantity they have in it
ProductsOfValidated(rows) ==
  \A i \in 1..Len(rows) :
    /\ rows[i].product \in ProductsOf(valid_transactions)
    /\ rows[i].total_qty = QtyOf(valid_transactions, rows[i].product)

\* C13: every aggregation view and every report section is computed from the
\* set validate_and_filter returned and from nothing else: the groups, counts
\* and sums are those of the returned records, so a parsed record that was
\* rejected or filtered out contributes to none of them
C13_OnlyValidated ==
  AfterReport =>
    /\ total_rev = TotalAmount(valid_transactions)
    /\ GroupsOfValidated(region_perf, "region", "transaction_count", "Region")
    /\ GroupsOfValidated(cust_stats, "customer", "purchase_count", "CustomerID")
    /\ GroupsOfValidated(daily_trend, "date", "transaction_count", "Date")
    /\ ProductsOfValidated(top_products)
    /\ ProductsOfValidated(low_products)
    /\ peak_day.transaction_count <= Len(valid_transactions)
    /\ peak_day.date # NoneV =>
         peak_day.date.s \in FieldSet(valid_transactions, "Date")
    /\ report.records_processed = Len(valid_transactions)
    /\ report.total_transactions = Len(valid_transactions)
    /\ report.total_revenue = TotalAmount(valid_transactions)
    /\ GroupsOfValidated(report.region_rows, "region", "transaction_count",
                         "Region")
    /\ ColumnSet(report.top_customers, "customer")
         \subseteq FieldSet(valid_transactions, "CustomerID")
    /\ ColumnSum(report.top_customers, "count") <= Len(valid_transactions)
    /\ GroupsOfValidated(report.daily_rows, "date", "transaction_count", "Date")
    /\ ColumnSet(report.avg_region, "region")
         = FieldSet(valid_transactions, "Region")
    /\ ProductsOfValidated(report.top_products)
    /\ ProductsOfValidated(report.low_products)

\* a run where a parsed record was rejected or filtered out and others were
\* returned
C13_Witness ==
  /\ AfterReport
  /\ valid_transactions # <<>>
  /\ Len(parsed_transactions) > Len(valid_transactions)

\* the stage after enrich_sales_data returned
AfterEnrich == pc = "enriched"

\* fetch_all_products caught a RequestException and returned []
FetchFailed == api_products = <<>>

\* C14: when the catalog fetch fails the pipeline goes on with an empty
\* lookup and every validated transaction gets an enriched record whose
\* API_Match is false
C14_FetchFailure ==
  (AfterEnrich /\ FetchFailed) =>
    /\ DOMAIN product_map = {}
    /\ Len(enriched_transactions) = Len(valid_transactions)
    /\ \A i \in 1..Len(enriched_transactions) :
         enriched_transactions[i]["API_Match"] = BoolV(FALSE)

\* C15: when persisting the side file fails (os.makedirs, open or write),
\* enrich_sales_data does not raise and returns the sequence it returns on a
\* successful write
C15_PersistFailure ==
  io_outcome \in {"makedirs_fails", "write_fails"} =>
    /\ pc \in {"enriched", "reported"}
    /\ enriched_transactions
         = enrich_sales_data(valid_transactions, product_map)

\* the except clause of main was entered: the stages after the one that
\* raised were not executed
StagesSkipped == pc = "failed"

\* C16: a failure in one stage of main never keeps the stages after it from
\* running; in particular the report stage runs after a failed enrichment
C16_StagesIsolated == ~StagesSkipped

\* the Date groups of a list of transactions: the records of one trimmed Date
DateGroup(transactions, d) ==
  {i \in 1..Len(transactions) : Strip(PyStr(transactions[i]["Date"])) = d}

\* the summed Amount of a Date group
DateRevenue(transactions, d) ==
  FSum([i \in 1..Len(transactions) |->
          IF i \in DateGroup(transactions, d) THEN Amount(transactions[i])
          ELSE FZero])

\* C17: find_peak_sales_day returns the date, revenue and transaction count
\* of a Date group whose summed Amount is at least that of every other Date
\* group, and (null, 0, 0) when there is no transaction
C17_PeakDay ==
  AfterAnalyze =>
    IF valid_transactions = <<>> THEN peak_day = NoPeak
    ELSE /\ peak_day.date # NoneV
         /\ peak_day.date.s \in FieldSet(valid_transactions, "Date")
         /\ peak_day.revenue = DateRevenue(valid_transactions, peak_day.date.s)
         /\ peak_day.transaction_count
              = Cardinality(DateGroup(valid_transactions, peak_day.date.s))
         /\ \A d \in FieldSet(valid_transactions, "Date") \ {peak_day.date.s} :
              FGe(peak_day.revenue, DateRevenue(valid_transactions, d))

\* the same on the runs where every returned Amount is a finite number
AllFinite == \A i \in 1..Len(valid_transactions) :
               Amount(valid_transactions[i]).k = "fin"
C17_PeakDayFinite == AllFinite => C17_PeakDay

\* the validated transactions whose extracted product id is a key of the
\* lookup
MatchedIndices ==
  {i \in 1..Len(valid_transactions) :
     IdMatches(ClaimedId(valid_transactions[i]), product_map)}

\* C18: the enrichment summary of the report has an attempted count equal to
\* the number of validated transactions, a matched count equal to the number
\* of them whose extracted product id is in the lookup, and lists exactly the
\* distinct ProductNames of the unmatched ones in ascending order
C18_EnrichmentSummary ==
  AfterReport =>
    /\ report.total_enriched_attempt = Len(valid_transactions)
    /\ report.success_enriched = Cardinality(MatchedIndices)
    /\ report.missing_products
         = SortedStrings({ProductOf(valid_transactions[i]) :
                            i \in (1..Len(valid_transactions)) \ MatchedIndices})

\* the summary generate_sales_report computes when it is given one enriched
\* record per validated transaction
SummaryOfEnrichedRecords ==
  generate_sales_report(valid_transactions,
                        [i \in 1..Len(valid_transactions) |->
                           EnrichOne(valid_transactions[i], product_map)])

\* the three statements of C18 on that summary
C18_SummaryOfEnrichedRecords ==
  AfterReport =>
    /\ SummaryOfEnrichedRecords.total_enriched_attempt = Len(valid_transactions)
    /\ SummaryOfEnrichedRecords.success_enriched = Cardinality(MatchedIndices)
    /\ SummaryOfEnrichedRecords.missing_products
         = SortedStrings({ProductOf(valid_transactions[i]) :
                            i \in (1..Len(valid_transactions)) \ MatchedIndices})

\* the lists that hold the same records as s in another order
Reorderings(s) ==
  {[i \in 1..Len(s) |-> s[p[i]]] :
     p \in {q \in [1..Len(s) -> 1..Len(s)] :
              \A a, b \in 1..Len(s) : q[a] = q[b] => a = b}}

\* C19: the order of the entries of region_wise_sales, top_selling_products,
\* customer_analysis and low_performing_products depends on the multiset of
\* transactions only: every reordering of the input gives the same output,
\* also when groups tie on the sort metric
C19_OrderIndependent ==
  AfterAnalyze =>
    \A t \in Reorderings(valid_transactions) :
      /\ region_wise_sales(t) = region_perf
      /\ top_selling_products(t, n_arg) = top_products
      /\ customer_analysis(t) = cust_stats
      /\ low_performing_products(t, threshold_arg) = low_products

\* C20: daily_sales_trend returns one entry per distinct trimmed Date of its
\* input, with the dates in strictly ascending lexicographic order, whatever
\* the order of the transactions
C20_DailyTrendSorted ==
  AfterAnalyze =>
    /\ ColumnSet(daily_trend, "date") = FieldSet(valid_transactions, "Date")
    /\ Len(daily_trend) = Cardinality(FieldSet(valid_transactions, "Date"))
    /\ \A i, j \in 1..Len(daily_trend) :
         i < j => StrLt(daily_trend[i].date, daily_trend[j].date)

\* a later date comes before an earlier one in the input
C20_Witness ==
  /\ AfterAnalyze
  /\ Len(daily_trend) >= 2
  /\ \E i, j \in 1..Len(valid_transactions) :
       /\ i < j
       /\ StrLt(Strip(PyStr(valid_transactions[j]["Date"])),
                Strip(PyStr(valid_transactions[i]["Date"])))

\* the records of one trimmed CustomerID
CustomerGroup(transactions, c) ==
  {i \in 1..Len(transactions) : Strip(PyStr(transactions[i]["CustomerID"])) = c}

\* the entry of a customer counts that customer's transactions and lists the
\* ProductNames that customer bought, ascending and without duplicates
CustomerEntryExact(e) ==
  /\ e.purchase_count = Cardinality(CustomerGroup(valid_transactions, e.customer))
  /\ \A i, j \in 1..Len(e.products_bought) :
       i < j => StrLt(e.products_bought[i], e.products_bought[j])
  /\ {e.products_bought[i] : i \in 1..Len(e.products_bought)}
       = {ProductOf(valid_transactions[j]) :
            j \in CustomerGroup(valid_transactions, e.customer)}

\* C21: customer_analysis returns one entry per distinct trimmed CustomerID,
\* in non-increasing order of total_spent; the purchase_count of an entry is
\* the number of that customer's transactions and its products_bought is the
\* ascending, duplicate-free list of exactly the ProductNames that customer
\* bought
C21_CustomerAnalysis ==
  AfterAnalyze =>
    /\ ColumnSet(cust_stats, "customer")
         = FieldSet(valid_transactions, "CustomerID")
    /\ Len(cust_stats) = Cardinality(FieldSet(valid_transactions, "CustomerID"))
    /\ \A i \in 1..(Len(cust_stats) - 1) :
         FGe(cust_stats[i].total_spent, cust_stats[i + 1].total_spent)
    /\ \A i \in 1..Len(cust_stats) : CustomerEntryExact(cust_stats[i])

\* the same on the runs where every returned Amount is a finite number
C21_CustomerAnalysisFinite == AllFinite => C21_CustomerAnalysis

\* the lines that split into exactly eight fields
EightFieldLines(lines) ==
  SelectSeq(lines, LAMBDA l : Len(Split(l, "|")) = 8)

\* C23: parse_transactions of file_handler_dif skips the rows with an
\* incorrect number of fields: a line that does not split into exactly eight
\* fields gives no Transaction and no exception, and the other lines are
\* parsed
C23_DifSkipsRows ==
  pc # "dif_start" =>
    /\ pc = "dif_parsed"
    /\ parsed_transactions = dif_parse_transactions(EightFieldLines(raw_lines)).data

\* the call returns whenever every line has eight fields
C23_DifParsesEightFields ==
  (pc # "dif_start" /\ EightFieldLines(raw_lines) = raw_lines) => pc = "dif_parsed"

\* the stages after a direct call of the views and of the report returned
ViewsReturned == pc = "views_returned"
ReportReturned == pc = "report_returned"

\* the denominator of the region percentages: the grand total of the list
ZeroGrandTotal ==
  FEq(GrandTotal(valid_transactions, "Region", FZero), FZero)

\* the number of records a view counts for the group key of keyfield
CountedFor(keyfield, key) ==
  Cardinality({i \in 1..Len(valid_transactions) :
                 InGroup(Contribution(valid_transactions[i], keyfield), key)})

\* C22: every rate, average and percentage of the views and of the report
\* (region percentage, customer avg_order_value, report average order value,
\* average transaction value per region, enrichment success rate) is 0 when
\* its denominator is 0, for every input, the empty transaction list and the
\* empty enriched list included
C22_ZeroDenominators ==
  /\ ViewsReturned =>
       /\ ZeroGrandTotal =>
            \A i \in 1..Len(region_perf) : region_perf[i].percentage = FZero
       /\ \A i \in 1..Len(cust_stats) :
            /\ cust_stats[i].purchase_count
                 = CountedFor("CustomerID", cust_stats[i].customer)
            /\ cust_stats[i].purchase_count = 0
                 => cust_stats[i].avg_order_value = FZero
  /\ ReportReturned =>
       /\ report.total_transactions = 0 => report.avg_order_value = FZero
       /\ ZeroGrandTotal =>
            \A i \in 1..Len(report.region_rows) :
              report.region_rows[i].pct = FZero
       /\ \A i \in 1..Len(report.avg_region) :
            CountedFor("Region", report.avg_region[i].region) = 0
              => report.avg_region[i].average = FZero
       /\ report.total_enriched_attempt = 0 => report.success_rate = FZero

\* the report of a list whose only record has Amount 0, with no enriched
\* record: a region row over a grand total of 0 and a success rate over 0
\* attempts
C22_Witness ==
  /\ ReportReturned
  /\ ZeroGrandTotal
  /\ Len(report.region_rows) = 1
  /\ report.total_transactions = 1
  /\ report.total_enriched_attempt = 0

\* the parsed records that pass validation
ValidIndices ==
  {i \in 1..Len(parsed_transactions) : ~FailsARule(parsed_transactions[i])}

\* the filters a record fails, as the claim states them
FailsRegion(t) ==
  region # NoneV /\ Lower(Strip(PyStr(t["Region"]))) # Lower(Strip(PyStr(region)))
BelowMin(t) == min_amount # NoneV /\ ~FGe(Amount(t), min_amount)
AboveMax(t) == max_amount # NoneV /\ ~FLe(Amount(t), max_amount)

\* C24: the filters apply in the order region, min_amount, max_amount, each
\* on the set left by the one before: a valid record that fails the region
\* filter is counted in filtered_by_region and never in filtered_by_amount,
\* also when its Amount is outside the amount bounds, and a record that passes
\* the region filter and is below min_amount (or above max_amount) is counted
\* once in filtered_by_amount
C24_FilterOrder ==
  AfterValidate =>
    /\ summary.filtered_by_region
         = Cardinality({i \in ValidIndices : FailsRegion(parsed_transactions[i])})
    /\ summary.filtered_by_amount
         = Cardinality({i \in ValidIndices :
                          /\ ~FailsRegion(parsed_transactions[i])
                          /\ \/ BelowMin(parsed_transactions[i])
                             \/ AboveMax(parsed_transactions[i])})

\* a valid record of another region whose Amount is also below min_amount,
\* next to a record of the region that is below min_amount
C24_Witness ==
  /\ AfterValidate
  /\ summary.filtered_by_region = 1
  /\ summary.filtered_by_amount = 1
  /\ \E i \in ValidIndices :
       FailsRegion(parsed_transactions[i]) /\ BelowMin(parsed_transactions[i])

\* the stages after validate_and_filter returned
ValidatedStages ==
  {"validated", "analyzed", "fetched", "enriched", "reported", "failed"}

\* a Transaction next to the record the Parser created: a record that passed
\* validation differs in Quantity and UnitPrice only, which hold the coerced
\* integer and floating point values, and any other record is unchanged
ChangedAsClaimed(now, created, validated) ==
  IF validated /\ ~FailsARule(created)
    THEN now = [created EXCEPT !["Quantity"] = PyInt(created["Quantity"]).v,
                               !["UnitPrice"] = PyFloat(created["UnitPrice"]).v]
    ELSE now = created

\* the parsed list next to the list the Parser created
FrameOf(created) ==
  /\ Len(parsed_transactions) = Len(created)
  /\ \A i \in 1..Len(created) :
       ChangedAsClaimed(parsed_transactions[i], created[i],
                        pc \in ValidatedStages)
  /\ pc \in ValidatedStages
       => valid_transactions = SelectSeq(parsed_transactions, KeptByClaim)

Uncoercible(txn) ==
  \/ ~PyInt(Get(txn, "Quantity", NoneV)).ok
  \/ ~PyFloat(Get(txn, "UnitPrice", NoneV)).ok

\* the list without those records
CoercibleOnly(transactions) ==
  SelectSeq(transactions, LAMBDA t : ~Uncoercible(t))

\* the direct call of the views has ended
ViewsCalled == pc \in {"views_returned", "views_raised"}

\* C26: in each aggregation view a record whose Quantity or UnitPrice cannot
\* be coerced to a number is skipped without raising, and every other record
\* contributes exactly as it does when the bad record is absent
C26_BadRecordsSkipped ==
  ViewsCalled =>
    /\ pc = "views_returned"
    /\ total_rev = calculate_total_revenue(CoercibleOnly(valid_transactions))
    /\ region_perf = region_wise_sales(CoercibleOnly(valid_transactions))
    /\ top_products
         = top_selling_products(CoercibleOnly(valid_transactions), n_arg)
    /\ low_products
         = low_performing_products(CoercibleOnly(valid_transactions),
                                   threshold_arg)
    /\ cust_stats = customer_analysis(CoercibleOnly(valid_transactions))
    /\ daily_trend = daily_sales_trend(CoercibleOnly(valid_transactions))
    /\ peak_day = find_peak_sales_day(CoercibleOnly(valid_transactions))

\* the same on the lists whose failing coercions raise an exception the
\* except clause of the views names (ValueError, TypeError)
C26_SkippedWhenCaught ==
  ~ViewRaises(valid_transactions) => C26_BadRecordsSkipped

\* C27: the summary validate_and_filter returns reconciles: total_input =
\* invalid + valid_records and valid_records = filtered_by_region +
\* filtered_by_amount + final_count, where final_count is the length of the
\* returned list and invalid is the returned invalid_count
C27_SummaryReconciles ==
  AfterValidate =>
    /\ summary.total_input = Len(parsed_transactions)
    /\ summary.total_input = summary.invalid + summary.valid_records
    /\ summary.valid_records
         = summary.filtered_by_region + summary.filtered_by_amount
             + summary.final_count
    /\ summary.final_count = Len(valid_transactions)
    /\ summary.invalid = invalid_count

\* one record was rejected and one valid record was removed by the
\* min_amount filter while max_amount was set too
C27_Witness ==
  /\ AfterValidate
  /\ summary.total_input = 2
  /\ summary.invalid = 1
  /\ summary.filtered_by_amount = 1
  /\ max_amount # NoneV
  /\ \E i \in ValidIndices : BelowMin(parsed_transactions[i])

\* C28: the peak-revenue day of the report (best_selling) is the date, with
\* the revenue and the transaction count, that find_peak_sales_day returns on
\* the same validated set, also when two or more dates tie for the maximum
\* revenue
C28_ReportPeakAgrees ==
  AfterReport => report.best_selling = peak_day

\* no two Date groups of the validated set have the same revenue, and every
\* Amount is finite
NoRevenueTie ==
  /\ AllFinite
  /\ \A d, e \in FieldSet(valid_transactions, "Date") :
       d # e => DateRevenue(valid_transactions, d)
                  # DateRevenue(valid_transactions, e)

\* the same on the sets without a tie
C28_AgreesWithoutTie == NoRevenueTie => C28_ReportPeakAgrees

\* the float sum of one column of the rows of a view
ColumnTotal(rows, field) == FSum([i \in 1..Len(rows) |-> rows[i][field]])

\* a = b within the rounding of one value per group (half a hundredth each)
EqualWithinRounding(a, b, groups) ==
  \/ FEq(a, b)
  \/ /\ a.k = "fin" /\ b.k = "fin"
     /\ 2 * (a.n - b.n) <= groups
     /\ 2 * (b.n - a.n) <= groups

\* C29: on every set validate_and_filter returns, the sum of total_sales over
\* the groups of region_wise_sales and the sum of revenue over the entries of
\* daily_sales_trend both equal calculate_total_revenue of that set, within
\* the rounding to two decimals
C29_ViewsAgree ==
  AfterAnalyze =>
    /\ EqualWithinRounding(ColumnTotal(region_perf, "total_sales"), total_rev,
                           Len(region_perf))
    /\ EqualWithinRounding(ColumnTotal(daily_trend, "revenue"), total_rev,
                           Len(daily_trend))

\* the same on the sets whose Amounts are all finite numbers
C29_ViewsAgreeFinite == AllFinite => C29_ViewsAgree

====
